---- MODULE Spec2Model ----
(***************************************************************************)
(* Model of the marketing automation system: the decision policies, the    *)
(* guardrail gate, the dispatch fan-out, the audit ledger, the experiment  *)
(* counters and the process_customer pipeline that ties them together.     *)
(*                                                                         *)
(* Conventions.  A Python dict is a function on a set of string keys, and  *)
(* d.get(k, default) is Get(d, k, default).  Scores that the code keeps as *)
(* floats in [0,1] are kept in thousandths (0.7 is 700), money in whole    *)
(* currency units, discounts in percent.  A text (subject + body) is kept  *)
(* as the counts the checks extract from it by substring and regex search. *)
(***************************************************************************)
EXTENDS Integers, Sequences, FiniteSets, TLC

VARIABLES
    customer_data,      \* gate: the customer record handed to run_all_checks
    email_data,         \* gate: the rendered content handed to run_all_checks
    gate_out,           \* gate: what run_all_checks returned
    execution_history,  \* ExecutionManager.execution_history
    exec_in,            \* dispatch: the arguments of the last execute_campaign call
    exec_out,           \* dispatch: how that call ended and what it returned
    exec_calls,         \* dispatch: how many execute_campaign calls were made
    audit_log,          \* AuditLogger.audit_log
    now,                \* the reading datetime.utcnow() gives at this moment
    history_out,        \* ledger: the last get_audit_history call and its result
    ab_test,            \* an ABTest held by AnalyticsManager.ab_tests
    run_pc,             \* per run: where its record_event call stands
    run_ev,             \* per run: the call's arguments and the value it has read
    experiment,         \* an ABTest whose calls are made one after another
    last_call,          \* experiment: the last call made on it and how it ended
    allocation_call,    \* the last _design_test_allocation call and its result
    decision_log,       \* per agent: BaseAgent.decision_log
    next_id,            \* how many uuid4 ids were drawn, plus one
    decide_calls,       \* agents: the decide calls made directly, with what they gave
    pc,                 \* process_customer: the step the run has reached
    run,                \* process_customer: the run's arguments and locals
    result,             \* process_customer: what the last call returned
    runs,               \* process_customer: how many calls were made
    trace,              \* process_customer: the steps the run has taken
    entry,              \* process_customer: the stores as the run found them
    workflows,          \* WorkflowEngine.workflows
    registered_agents,  \* WorkflowEngine.registered_agents
    wf_call,            \* execute_workflow: the call in progress, or the last one
    wf_calls            \* execute_workflow: how many calls were made

gate_vars == <<customer_data, email_data, gate_out>>
exec_vars == <<execution_history, exec_in, exec_out, exec_calls>>

audit_vars == <<audit_log, now, history_out>>

ab_vars == <<ab_test, run_pc, run_ev>>

winner_vars == <<experiment, last_call>>

alloc_vars == <<allocation_call>>

policy_vars == <<decision_log, next_id, decide_calls>>

pipeline_vars == <<pc, run, result, runs, trace, entry>>

workflow_vars == <<workflows, registered_agents, wf_call, wf_calls>>

vars == <<gate_vars, exec_vars, audit_vars, ab_vars, winner_vars, alloc_vars, policy_vars, pipeline_vars, workflow_vars>>

(***************************************************************************)
(* Dictionaries                                                            *)
(***************************************************************************)
Get(d, k, default) == IF k \in DOMAIN d THEN d[k] ELSE default

Restrict(d, keys) == [k \in keys |-> d[k]]

\* every dict obtained from `full` by leaving out some of the keys in `optional`
Dicts(full, optional) ==
    { Restrict(full, DOMAIN full \ gone) : gone \in SUBSET optional }

Min(a, b) == IF a < b THEN a ELSE b
Max(a, b) == IF a > b THEN a ELSE b

RECURSIVE SelectSeqIn(_, _)
\* [e for e in s if e in keep]
SelectSeqIn(s, keep) ==
    IF s = <<>> THEN <<>>
    ELSE (IF Head(s) \in keep THEN <<Head(s)>> ELSE <<>>) \o SelectSeqIn(Tail(s), keep)

(***************************************************************************)
(* Configuration (config/config.py)                                        *)
(***************************************************************************)
MIN_ENGAGEMENT_SCORE == 300
TONE_CONSISTENCY_THRESHOLD == 850
SPAM_SCORE_THRESHOLD == 700

FREQUENCY_CAP_RULES ==
    [marketing |-> 3, transactional |-> 999, promotional |-> 2, newsletter |-> 1]

(***************************************************************************)
(* Texts.  A text is the record of what the checks read off it:            *)
(*   kw    how many of SPAM_KEYWORDS occur in lower(subject + " " + body)  *)
(*   caps  how many runs [A-Z]{3,} the subject holds                       *)
(*   bang  how many runs [!]{2,} the lowered content holds                 *)
(*   forb  how many of TONE_GUIDELINES.forbidden_words occur               *)
(*   req   whether one of the required element markers occurs              *)
(*   fn    whether a first name placeholder occurs                         *)
(*   dyn   whether "{{", "{%", "dynamic" or "personalized" occurs          *)
(***************************************************************************)
Text(kw, caps, bang, forb, req, fn, dyn) ==
    [kw |-> kw, caps |-> caps, bang |-> bang, forb |-> forb,
     req |-> req, fn |-> fn, dyn |-> dyn]

\* subject "" and body ""
EmptyText == Text(0, 0, 0, 0, FALSE, FALSE, FALSE)
\* the copy _generate_copy renders from each first campaign template
TemplateText == Text(0, 0, 0, 0, FALSE, FALSE, FALSE)
\* "Don't miss out - limited time offer!!!" / "This is GUARANTEED to work! Click here now!"
DemoText == Text(3, 0, 1, 1, FALSE, FALSE, FALSE)
\* "URGENT: Limited time offer - ACT NOW!" / "FREE FREE FREE!!! guaranteed risk free!! act now"
ShoutyText == Text(6, 3, 2, 3, FALSE, FALSE, FALSE)
\* "Hi {{first_name}}, a clear CTA for you" / "personalized picks with our brand signature"
CleanText == Text(0, 1, 0, 0, TRUE, TRUE, TRUE)
\* four keyword hits and nothing else: the first spam score above the threshold
FourKeywordText == Text(4, 0, 0, 0, TRUE, FALSE, TRUE)
\* one forbidden word, a required marker: tone 0.9
OneForbiddenText == Text(1, 0, 0, 1, TRUE, TRUE, TRUE)

Texts == {EmptyText, DemoText, ShoutyText, CleanText, FourKeywordText, OneForbiddenText}

(***************************************************************************)
(* Guardrail checks (guardrails/guardrails.py)                             *)
(***************************************************************************)
GuardrailCheck(name, passed, details, severity) ==
    [check_name |-> name, passed |-> passed, details |-> details, severity |-> severity]

\* a slip: going over the cap is ranked with the compliance failures
check_email_frequency_critical(customer_id, email_count_this_week, email_type) ==
    LET max_allowed == Get(FREQUENCY_CAP_RULES, email_type, 3)
        passed == email_count_this_week < max_allowed
    IN  GuardrailCheck("frequency_cap", passed,
            [emails_this_week |-> email_count_this_week, max_allowed |-> max_allowed],
            IF ~passed THEN "critical" ELSE "warning")

check_email_frequency(customer_id, email_count_this_week, email_type) ==
    LET max_allowed == Get(FREQUENCY_CAP_RULES, email_type, 3)
        passed == email_count_this_week < max_allowed
    IN  GuardrailCheck("frequency_cap", passed,
            [emails_this_week |-> email_count_this_week, max_allowed |-> max_allowed],
            IF ~passed THEN "error" ELSE "warning")

check_spam_score(text) ==
    LET spam_count == text.kw
                      + (IF text.caps > 2 THEN 1 ELSE 0)
                      + (IF text.bang > 1 THEN 1 ELSE 0)
        spam_score == Min((spam_count * 1000) \div 5, 1000)
        passed == spam_score < SPAM_SCORE_THRESHOLD
    IN  GuardrailCheck("spam_score", passed,
            [spam_score |-> spam_score, spam_triggers_found |-> spam_count],
            IF ~passed THEN "error" ELSE "warning")

check_engagement_score(customer_engagement) ==
    LET passed == customer_engagement >= MIN_ENGAGEMENT_SCORE
    IN  GuardrailCheck("engagement_score", passed,
            [engagement_score |-> customer_engagement],
            IF ~passed THEN "error" ELSE "warning")

\* a slip: consent is asked of every region
check_gdpr_consent_every_region(cust, region) ==
    LET has_consent == Get(cust, "gdpr_consent", FALSE)
    IN  GuardrailCheck("gdpr_consent", has_consent,
            [region |-> region, has_consent |-> has_consent],
            IF ~has_consent THEN "critical" ELSE "warning")

check_gdpr_consent(cust, region) ==
    LET has_consent == Get(cust, "gdpr_consent", FALSE)
        passed == has_consent \/ region # "EU"
    IN  GuardrailCheck("gdpr_consent", passed,
            [region |-> region, has_consent |-> has_consent],
            IF ~passed /\ region = "EU" THEN "critical" ELSE "warning")

required_elements == <<"from_address", "unsubscribe_link", "physical_address">>

\* a slip: only an absent key counts as missing
Absent(d, k) == k \notin DOMAIN d

\* `not email_data.get(e)`: the key is absent or its value is the empty string
Falsy(d, k) == Get(d, k, "") = ""

check_can_spam(email) ==
    LET missing == SelectSeqIn(required_elements,
                               {e \in {"from_address", "unsubscribe_link", "physical_address"} :
                                   Falsy(email, e)})
        passed == Len(missing) = 0
    IN  GuardrailCheck("can_spam", passed,
            [missing_elements |-> missing],
            IF ~passed THEN "critical" ELSE "warning")

check_tone_consistency(text) ==
    LET penalised == 1000 - (IF text.forb > 0 THEN text.forb * 100 ELSE 0)
                          - (IF ~text.req THEN 200 ELSE 0)
        consistency_score == Max(0, Min(1000, penalised))
        passed == consistency_score >= TONE_CONSISTENCY_THRESHOLD
    IN  GuardrailCheck("tone_consistency", passed,
            [consistency_score |-> consistency_score, forbidden_words_found |-> text.forb],
            IF ~passed THEN "error" ELSE "warning")

check_personalization(text) ==
    LET passed == text.fn \/ text.dyn
    IN  GuardrailCheck("personalization", passed,
            [has_first_name_placeholder |-> text.fn, has_dynamic_content |-> text.dyn],
            "warning")

CheckNames == {"frequency_cap", "spam_score", "engagement_score", "gdpr_consent",
               "can_spam", "tone_consistency", "personalization"}

\* the results dict of run_all_checks
run_checks(cust, email) ==
    LET text == Get(email, "content", EmptyText)
    IN  [frequency_cap |-> check_email_frequency(Get(cust, "customer_id", "none"),
                                                 Get(cust, "emails_this_week", 0),
                                                 Get(cust, "email_type", "marketing")),
         spam_score |-> check_spam_score(text),
         engagement_score |-> check_engagement_score(Get(cust, "engagement_score", 0)),
         gdpr_consent |-> check_gdpr_consent(cust, Get(cust, "region", "EU")),
         can_spam |-> check_can_spam(email),
         tone_consistency |-> check_tone_consistency(text),
         personalization |-> check_personalization(text)]

\* a plausible slip: every failed check blocks, whatever its severity
all_passed_strict(results) ==
    \A n \in DOMAIN results : results[n].passed

\* all(check.passed or check.severity != "critical" for check in results.values())
all_passed_of(results) ==
    \A n \in DOMAIN results : results[n].passed \/ results[n].severity # "critical"

run_all_checks(cust, email) ==
    LET results == run_checks(cust, email)
    IN  [all_passed |-> all_passed_of(results), results |-> results]

(***************************************************************************)
(* Execution channels (execution_channels/channels.py).  A sender either   *)
(* returns an ExecutionResult or raises: len(None) is a TypeError, so      *)
(* send_email raises on a missing body, send_sms and send_whatsapp on a    *)
(* missing phone or message.  NoneValue stands for Python's None.          *)
(***************************************************************************)
NoneValue == "<None>"

ExecutionResult(channel, customer_id, status) ==
    [channel |-> channel, customer_id |-> customer_id, status |-> status]

Returned(value) == [raised |-> FALSE, result |-> value]
Raised == [raised |-> TRUE]

send_email(customer_id, email, subject, body) ==
    IF body = NoneValue THEN Raised
    ELSE Returned(ExecutionResult("email", customer_id, "sent"))

send_sms(customer_id, phone, message) ==
    IF phone = NoneValue \/ message = NoneValue THEN Raised
    ELSE Returned(ExecutionResult("sms", customer_id, "sent"))

send_whatsapp(customer_id, phone, message, has_consent) ==
    IF ~has_consent THEN Returned(ExecutionResult("whatsapp", customer_id, "skipped"))
    ELSE IF phone = NoneValue \/ message = NoneValue THEN Raised
    ELSE Returned(ExecutionResult("whatsapp", customer_id, "sent"))

set_web_personalization(customer_id) ==
    Returned(ExecutionResult("web", customer_id, "sent"))

send_push(customer_id) ==
    Returned(ExecutionResult("push", customer_id, "sent"))

RecognizedChannels == {"email", "sms", "whatsapp", "web", "push"}

\* one branch of the if/elif chain in execute_campaign
send_channel(channel, customer_id, cust, camp) ==
    LET body == Get(camp, "body", NoneValue)
    IN  CASE channel = "email" ->
                send_email(customer_id, Get(cust, "email", NoneValue),
                           Get(camp, "subject", NoneValue), body)
          [] channel = "sms" ->
                send_sms(customer_id, Get(cust, "phone", NoneValue),
                         Get(camp, "sms_message", body))
          [] channel = "whatsapp" ->
                send_whatsapp(customer_id, Get(cust, "phone", NoneValue),
                              Get(camp, "whatsapp_message", body),
                              Get(cust, "whatsapp_consent", FALSE))
          [] channel = "web" -> set_web_personalization(customer_id)
          [] channel = "push" -> send_push(customer_id)

RECURSIVE campaign_loop(_, _, _, _, _)
\* the for loop of execute_campaign: `sent` holds the results appended so far;
\* a raising sender ends the loop and the call
campaign_loop(channels, customer_id, cust, camp, sent) ==
    IF channels = <<>> THEN [raised |-> FALSE, results |-> sent]
    ELSE IF Head(channels) \notin RecognizedChannels
         THEN campaign_loop(Tail(channels), customer_id, cust, camp, sent)
         ELSE LET r == send_channel(Head(channels), customer_id, cust, camp)
              IN  IF r.raised THEN [raised |-> TRUE, results |-> sent]
                  ELSE campaign_loop(Tail(channels), customer_id, cust, camp,
                                     Append(sent, r.result))

execute_campaign(customer_id, cust, camp) ==
    campaign_loop(Get(camp, "channels", <<"email">>), customer_id, cust, camp, <<>>)

(***************************************************************************)
(* Dispatch on its own: execute_campaign called with any channel list      *)
(***************************************************************************)
MaxChannels == 2
MaxCalls == 1

ChannelNames == RecognizedChannels \cup {"fax"}

BoundedSeqs(S, n) == UNION { [1..k -> S] : k \in 0..n }

ExecCustomers ==
    UNION { Dicts([email |-> "sarah@example.com", phone |-> "+1234567890",
                   whatsapp_consent |-> c],
                  {"phone", "whatsapp_consent"}) : c \in BOOLEAN }

ExecCampaigns ==
    UNION { Dicts([channels |-> chs, subject |-> "s", body |-> "b"], {"channels", "body"}) :
            chs \in BoundedSeqs(ChannelNames, MaxChannels) }

NoCall == [state |-> "idle"]

ExecIdle ==
    /\ execution_history = <<>>
    /\ exec_in = [customer_id |-> "none"]
    /\ exec_out = NoCall
    /\ exec_calls = 0

ExecuteCampaign ==
    /\ exec_calls < MaxCalls
    /\ \E cust \in ExecCustomers, camp \in ExecCampaigns :
          LET out == execute_campaign("cust_001", cust, camp)
          IN  /\ execution_history' = execution_history \o out.results
              /\ exec_in' = [customer_id |-> "cust_001", customer_data |-> cust,
                             campaign_data |-> camp]
              /\ exec_out' = IF out.raised THEN [state |-> "raised"]
                             ELSE [state |-> "returned", results |-> out.results]
    /\ exec_calls' = exec_calls + 1

(***************************************************************************)
(* The gate on its own: run_all_checks applied to any record and content   *)
(***************************************************************************)
GateCustomers ==
    UNION { Dicts([customer_id |-> "test_001", emails_this_week |-> w, email_type |-> t,
                   engagement_score |-> e, gdpr_consent |-> c, region |-> r],
                  {"emails_this_week", "email_type", "engagement_score",
                   "gdpr_consent", "region"}) :
            w \in {3}, t \in {"newsletter"}, e \in {299, 300},
            c \in BOOLEAN, r \in {"EU", "US"} }

GateEmails ==
    UNION { Dicts([content |-> x, from_address |-> f, unsubscribe_link |-> u,
                   physical_address |-> p],
                  {"from_address", "unsubscribe_link", "physical_address"}) :
            x \in Texts, f \in {"", "noreply@brand.com"},
            u \in {"", "https://brand.com/unsubscribe"},
            p \in {"", "123 Main St"} }

NotRun == [done |-> FALSE]

GateIdle ==
    /\ customer_data = [customer_id |-> "none"]
    /\ email_data = [content |-> EmptyText]
    /\ gate_out = NotRun

GateInit ==
    /\ customer_data \in GateCustomers
    /\ email_data \in GateEmails
    /\ gate_out = NotRun

RunAllChecks ==
    /\ ~gate_out.done
    /\ gate_out' = [done |-> TRUE] @@ run_all_checks(customer_data, email_data)
    /\ UNCHANGED <<customer_data, email_data>>

(***************************************************************************)
(* Time.  datetime.utcnow() is read as an instant [s, us]: whole seconds   *)
(* and microseconds.  isoformat() + "Z" prints the seconds in fixed width  *)
(* and then ".ffffff" only when the microseconds are not zero, and the     *)
(* ledger orders entries by comparing these strings.                       *)
(***************************************************************************)
\* the readings the clock takes: the start of a second, a moment later in the
\* same second, and the same two in the next second
Instants == [s : {0, 1}, us : {0, 1}]

\* a is an earlier instant than b
Earlier(a, b) == a.s < b.s \/ (a.s = b.s /\ a.us < b.us)

\* isoformat(a) + "Z" < isoformat(b) + "Z" as Python compares strings: equal
\* seconds leave the tails "Z" or ".ffffffZ" to compare, and "." sorts before "Z"
iso_less(a, b) ==
    \/ a.s < b.s
    \/ /\ a.s = b.s
       /\ \/ a.us # 0 /\ b.us = 0
          \/ a.us # 0 /\ b.us # 0 /\ a.us < b.us

(***************************************************************************)
(* Audit ledger (guardrails/guardrails.py, AuditLogger)                    *)
(***************************************************************************)
log_decision_entry(timestamp, decision, guardrail_checks, human_review) ==
    [timestamp |-> timestamp,
     decision_id |-> Get(decision, "decision_id", NoneValue),
     agent |-> Get(decision, "agent_name", NoneValue),
     customer_id |-> Get(decision, "customer_id", NoneValue),
     action |-> Get(decision, "action", NoneValue),
     guardrail_checks |-> guardrail_checks,
     human_review_required |-> human_review,
     decision_details |-> decision]

log_human_override_entry(timestamp, decision_id, original_action, override_action, reason) ==
    [timestamp |-> timestamp,
     decision_id |-> decision_id,
     original_action |-> original_action,
     override_action |-> override_action,
     reason |-> reason,
     type |-> "human_override"]

RECURSIVE insert_desc(_, _)
\* `e` put behind every entry whose timestamp string is not smaller than its own
insert_desc(e, sorted) ==
    IF sorted = <<>> THEN <<e>>
    ELSE IF iso_less(Head(sorted).timestamp, e.timestamp)
         THEN <<e>> \o sorted
         ELSE <<Head(sorted)>> \o insert_desc(e, Tail(sorted))

RECURSIVE sorted_desc_from(_, _)
sorted_desc_from(entries, sorted) ==
    IF entries = <<>> THEN sorted
    ELSE sorted_desc_from(Tail(entries), insert_desc(Head(entries), sorted))

\* sorted(history, key=lambda x: x["timestamp"], reverse=True): a stable sort,
\* entries with equal keys stay in their original order
sorted_by_timestamp_desc(entries) == sorted_desc_from(entries, <<>>)

RECURSIVE filter_customer(_, _)
\* [e for e in audit_log if e.get("customer_id") == customer_id]
filter_customer(entries, customer_id) ==
    IF entries = <<>> THEN <<>>
    ELSE (IF Get(Head(entries), "customer_id", NoneValue) = customer_id
          THEN <<Head(entries)>> ELSE <<>>)
         \o filter_customer(Tail(entries), customer_id)

\* s[:limit] for limit >= 0
Take(s, limit) == SubSeq(s, 1, Min(limit, Len(s)))

get_audit_history(log, customer_id, limit) ==
    LET history == IF customer_id # NoneValue THEN filter_customer(log, customer_id)
                   ELSE log
    IN  Take(sorted_by_timestamp_desc(history), limit)

(***************************************************************************)
(* The ledger on its own: appends and queries while the clock advances     *)
(***************************************************************************)
MaxLog == 3

LedgerDecisions ==
    { [decision_id |-> "d1", agent_name |-> "CampaignAgent", customer_id |-> "cust_001",
       action |-> "execute_campaign", requires_human_review |-> FALSE],
      [decision_id |-> "d2", agent_name |-> "LifecycleAgent", customer_id |-> "cust_002",
       action |-> "track_engagement", requires_human_review |-> TRUE] }

LedgerChecks == [gdpr_consent |-> TRUE, can_spam |-> TRUE, tone_consistency |-> FALSE]

NoQuery == [called |-> FALSE]

AuditIdle ==
    /\ audit_log = <<>>
    /\ now = [s |-> 0, us |-> 0]
    /\ history_out = NoQuery

AuditInit ==
    /\ audit_log = <<>>
    /\ now \in Instants
    /\ history_out = NoQuery

\* time passes between two calls
Tick ==
    /\ \E t \in Instants : Earlier(now, t) /\ now' = t
    /\ UNCHANGED <<audit_log, history_out>>

LogDecision ==
    /\ Len(audit_log) < MaxLog
    /\ \E d \in LedgerDecisions :
          audit_log' = Append(audit_log,
                              log_decision_entry(now, d, LedgerChecks,
                                                 d.requires_human_review))
    /\ UNCHANGED <<now, history_out>>

LogHumanOverride ==
    /\ Len(audit_log) < MaxLog
    /\ \E d \in LedgerDecisions :
          audit_log' = Append(audit_log,
                              log_human_override_entry(now, d.decision_id, d.action,
                                                       "skip", "manual review"))
    /\ UNCHANGED <<now, history_out>>

GetAuditHistory ==
    /\ \E customer_id \in {NoneValue, "cust_001"}, limit \in {1, Len(audit_log), 100} :
          history_out' = [called |-> TRUE, customer_id |-> customer_id, limit |-> limit,
                          seen |-> Len(audit_log),
                          entries |-> get_audit_history(audit_log, customer_id, limit)]
    /\ UNCHANGED <<audit_log, now>>

(***************************************************************************)
(* Experiments (analytics/metrics.py).  ABTest.record_event does           *)
(* `variant.impressions += int(value)`: the counter is read, the sum is    *)
(* computed, the counter is written.  Nothing guards the three steps, so   *)
(* runs that share a variant interleave between the read and the write.    *)
(***************************************************************************)
NumRuns == 2

Runs == 1..NumRuns

VariantIds == {"control", "variant_a"}

ABTestVariant(variant_id) ==
    [variant_id |-> variant_id, conversions |-> 0, impressions |-> 0, revenue |-> 0]

\* AnalyticsManager.create_ab_test with two variants, as the dataclass defaults set it
create_ab_test ==
    [variants |-> [v \in VariantIds |-> ABTestVariant(v)],
     status |-> "running", winner |-> NoneValue, confidence_level |-> 950]

\* the counter an event type adds to; any other event type adds to none
counter_of(event_type) ==
    CASE event_type = "impression" -> "impressions"
      [] event_type = "conversion" -> "conversions"
      [] event_type = "revenue" -> "revenue"
      [] OTHER -> NoneValue

NoEvent == [variant_id |-> NoneValue, event_type |-> NoneValue, read |-> 0]

ABIdle ==
    /\ ab_test = create_ab_test
    /\ run_pc = [r \in Runs |-> "idle"]
    /\ run_ev = [r \in Runs |-> NoEvent]

\* record_event is entered: an unknown variant or event type returns at once
RecordEventBegin(r) ==
    /\ run_pc[r] = "idle"
    /\ \E variant_id \in VariantIds \cup {"variant_x"},
          event_type \in {"impression", "conversion", "revenue", "click"} :
          /\ run_ev' = [run_ev EXCEPT ![r] = [variant_id |-> variant_id,
                                              event_type |-> event_type, read |-> 0]]
          /\ run_pc' = [run_pc EXCEPT ![r] =
                            IF variant_id \notin DOMAIN ab_test.variants
                               \/ counter_of(event_type) = NoneValue
                            THEN "done" ELSE "load"]
    /\ UNCHANGED ab_test

\* the left operand of += is read
RecordEventLoad(r) ==
    /\ run_pc[r] = "load"
    /\ run_ev' = [run_ev EXCEPT ![r].read =
                      ab_test.variants[run_ev[r].variant_id][counter_of(run_ev[r].event_type)]]
    /\ run_pc' = [run_pc EXCEPT ![r] = "store"]
    /\ UNCHANGED ab_test

\* the sum of the value read and int(value) = 1 is written back
RecordEventStore(r) ==
    /\ run_pc[r] = "store"
    /\ ab_test' = [ab_test EXCEPT
                      !.variants[run_ev[r].variant_id][counter_of(run_ev[r].event_type)] =
                          run_ev[r].read + 1]
    /\ run_pc' = [run_pc EXCEPT ![r] = "done"]
    /\ UNCHANGED run_ev

(***************************************************************************)
(* Decisions (agents/base_agent.py).  _create_decision fills an            *)
(* AgentDecision; the uuid4 id and the utcnow timestamp are attached by    *)
(* the actions, which know the next fresh id and the clock.                *)
(* Confidence is in thousandths.  An f-string reasoning is kept as its     *)
(* template with the numbers and strings put into it.                      *)
(***************************************************************************)
Reasoning(text, nums, strs) == [text |-> text, nums |-> nums, strs |-> strs]

NoParameters == [x \in {} |-> 0]

\* a caller that leaves `confidence` out gets the default of _create_decision
create_decision_default_confidence(agent_name, customer_id, action, parameters, confidence, guardrail_checks, requires_human_review, reasoning) ==
    [agent_name |-> agent_name, customer_id |-> customer_id, action |-> action,
     parameters |-> parameters, confidence |-> 850,
     guardrail_checks |-> guardrail_checks,
     requires_human_review |-> requires_human_review, reasoning |-> reasoning]

\* a caller that leaves `requires_human_review` out gets the default, False
create_decision_default_review(agent_name, customer_id, action, parameters, confidence, guardrail_checks, requires_human_review, reasoning) ==
    [agent_name |-> agent_name, customer_id |-> customer_id, action |-> action,
     parameters |-> parameters, confidence |-> confidence,
     guardrail_checks |-> guardrail_checks,
     requires_human_review |-> FALSE, reasoning |-> reasoning]

create_decision(agent_name, customer_id, action, parameters, confidence, guardrail_checks, requires_human_review, reasoning) ==
    [agent_name |-> agent_name, customer_id |-> customer_id, action |-> action,
     parameters |-> parameters, confidence |-> confidence,
     guardrail_checks |-> guardrail_checks,
     requires_human_review |-> requires_human_review, reasoning |-> reasoning]

AgentInput(customer_id, cust, context) ==
    [customer_id |-> customer_id, customer_data |-> cust, context |-> context]

(***************************************************************************)
(* Abandoned cart and win-back policy (agents/abandoned_cart_agent.py)     *)
(***************************************************************************)
\* a slip in the regular tiers: the largest carts get the largest discount
calculate_incentive_rising(cart_value, is_vip) ==
    IF is_vip
    THEN (IF cart_value > 500 THEN 10 ELSE IF cart_value > 200 THEN 12 ELSE 15)
    ELSE (IF cart_value > 500 THEN 25 ELSE IF cart_value > 200 THEN 20 ELSE 15)

calculate_incentive(cart_value, is_vip) ==
    IF is_vip
    THEN (IF cart_value > 500 THEN 10 ELSE IF cart_value > 200 THEN 12 ELSE 15)
    ELSE (IF cart_value > 500 THEN 15 ELSE IF cart_value > 200 THEN 20 ELSE 25)

handle_abandoned_cart(agent_input) ==
    LET cust == agent_input.customer_data
        context == agent_input.context
        cart_value == Get(cust, "cart_value", 0)
        cart_items == Get(context, "cart_items", <<>>)
        hours_since_abandon == Get(context, "hours_since_abandon", 2)
        incentive == calculate_incentive(cart_value, Get(cust, "vip_status", FALSE))
    IN  IF cart_value < 20
        THEN create_decision("AbandonedCartWinBackAgent", agent_input.customer_id,
                 "skip_cart_recovery", [reason |-> "Cart value too low"], 900,
                 NoParameters, FALSE,
                 Reasoning("Cart value below minimum recovery threshold", <<>>, <<>>))
        ELSE create_decision("AbandonedCartWinBackAgent", agent_input.customer_id,
                 "send_cart_recovery_email",
                 [cart_value |-> cart_value,
                  top_items |-> Take(cart_items, 3),
                  discount_percentage |-> incentive,
                  discount_code |-> <<"RECOVER", Get(cust, "customer_id", "X")>>,
                  expiry_hours |-> 24,
                  send_time |-> "2 hours from now",
                  follow_up |-> "Send SMS reminder after 12 hours"],
                 890,
                 [discount_policy_check |-> TRUE, frequency_cap_check |-> TRUE,
                  inventory_check |-> TRUE],
                 cart_value > 500,
                 Reasoning("Cart abandoned {}h ago. Value: ${}. Incentive: {}% discount",
                           <<hours_since_abandon, cart_value, incentive>>, <<>>))

handle_winback(agent_input) ==
    LET cust == agent_input.customer_data
        days_inactive == Get(cust, "days_since_last_activity", 0)
        customer_value == Get(cust, "customer_value", 0)
        offer_type == IF customer_value > 1000 THEN "personal_concierge"
                      ELSE IF customer_value > 300 THEN "discount_plus_new_products"
                      ELSE "generic_incentive"
        \* 0.15, 0.20, 0.15 in hundredths
        discount == IF customer_value > 1000 THEN 15
                    ELSE IF customer_value > 300 THEN 20
                    ELSE 15
        channels == IF customer_value > 1000 THEN <<"email", "phone">>
                    ELSE IF customer_value > 300 THEN <<"email", "sms">>
                    ELSE <<"email">>
    IN  IF days_inactive < 90
        THEN create_decision("AbandonedCartWinBackAgent", agent_input.customer_id,
                 "skip_winback", [reason |-> "Customer not inactive long enough"], 900,
                 NoParameters, FALSE,
                 Reasoning("Minimum 90 days inactivity required for win-back", <<>>, <<>>))
        ELSE create_decision("AbandonedCartWinBackAgent", agent_input.customer_id,
                 "execute_winback_campaign",
                 [offer_type |-> offer_type,
                  discount_percentage |-> discount,
                  discount_code |-> <<"WB", Get(cust, "customer_id", "X"),
                                      (days_inactive \div 30) % 10>>,
                  channels |-> channels,
                  messaging |-> <<"We miss you! {}% off your next purchase", discount>>,
                  follow_up_wave |-> 2,
                  personalization |-> "Highlight products similar to past purchases"],
                 850,
                 [inactive_days_check |-> TRUE, discount_policy_check |-> TRUE,
                  email_deliverability_check |-> TRUE],
                 customer_value > 2000,
                 Reasoning("Dormant for {} days. Customer Value: ${}. Strategy: {}",
                           <<days_inactive, customer_value>>, <<offer_type>>))

\* a slip: a context that names no action type is taken for a win-back
cart_winback_decide_default_winback(agent_input) ==
    LET action_type == Get(agent_input.context, "action_type", "win_back")
    IN  IF action_type = "cart_abandonment" THEN handle_abandoned_cart(agent_input)
        ELSE IF action_type = "win_back" THEN handle_winback(agent_input)
        ELSE create_decision("AbandonedCartWinBackAgent", agent_input.customer_id,
                 "skip", NoParameters, 900, NoParameters, FALSE,
                 Reasoning("Unknown action type", <<>>, <<>>))

cart_winback_decide(agent_input) ==
    LET action_type == Get(agent_input.context, "action_type", "cart_abandonment")
    IN  IF action_type = "cart_abandonment" THEN handle_abandoned_cart(agent_input)
        ELSE IF action_type = "win_back" THEN handle_winback(agent_input)
        ELSE create_decision("AbandonedCartWinBackAgent", agent_input.customer_id,
                 "skip", NoParameters, 900, NoParameters, FALSE,
                 Reasoning("Unknown action type", <<>>, <<>>))

(***************************************************************************)
(* Campaign policy (agents/campaign_agent.py, CAMPAIGN_TEMPLATES)          *)
(***************************************************************************)
LifecycleStages == {"new", "active", "at_risk", "churned"}

\* the first template of each stage that has any (_select_campaign takes
\* campaigns[0]); a subject template is kept as its pieces, placeholders apart
CAMPAIGN_TEMPLATES ==
    [new |-> [name |-> "Welcome Series", channels |-> <<"email", "web">>,
              subject_template |-> <<"Welcome to ", "{{brand_name}}", ", ",
                                     "{{first_name}}", "!">>],
     active |-> [name |-> "Engagement Booster", channels |-> <<"email", "push">>,
                 subject_template |-> <<"{{first_name}}", ", exclusive offer inside">>],
     at_risk |-> [name |-> "Win-Back Special", channels |-> <<"email", "sms">>,
                  subject_template |-> <<"We miss you ", "{{first_name}}",
                                         " - 20% off inside">>]]

evaluate_trigger(trigger, cust) ==
    CASE trigger = "none" -> FALSE
      [] trigger = "cart_abandoned" -> Get(cust, "cart_value", 0) > 0
      [] trigger = "purchase_milestone" -> Get(cust, "purchase_count", 0) % 5 = 0
      [] trigger = "new_signup" -> Get(cust, "days_since_signup", 999) < 1
      [] trigger = "lifecycle_change" -> TRUE
      [] trigger = "win_back" -> Get(cust, "days_since_last_activity", 0) > 90
      [] OTHER -> FALSE

\* campaigns[0], or None when the stage has no templates
select_campaign(lifecycle_stage) ==
    IF lifecycle_stage \in DOMAIN CAMPAIGN_TEMPLATES
    THEN [found |-> TRUE, campaign |-> CAMPAIGN_TEMPLATES[lifecycle_stage]]
    ELSE [found |-> FALSE]

RECURSIVE render(_, _)
\* template.replace("{{first_name}}", first_name).replace("{{brand_name}}", "YourBrand")
render(pieces, first_name) ==
    IF pieces = <<>> THEN ""
    ELSE (CASE Head(pieces) = "{{first_name}}" -> first_name
            [] Head(pieces) = "{{brand_name}}" -> "YourBrand"
            [] OTHER -> Head(pieces))
         \o render(Tail(pieces), first_name)

\* body_map, for the templates that can be selected
body_map ==
    [n \in {"Welcome Series", "Engagement Booster", "Win-Back Special"} |->
        CASE n = "Welcome Series" ->
                <<"Welcome to YourBrand! We're excited to have you. Check out these resources to get started.">>
          [] n = "Engagement Booster" ->
                <<"We have something special for you, ", "{{first_name}}", ".">>
          [] n = "Win-Back Special" ->
                <<"We miss you! Come back and enjoy 20% off your next purchase.">>]

generate_copy(campaign, cust) ==
    LET first_name == Get(cust, "first_name", "Customer")
    IN  [subject |-> render(Get(campaign, "subject_template", <<>>), first_name),
         body |-> render(Get(body_map, campaign.name, <<"Check out our latest offer!">>),
                         first_name),
         \* no selectable template has "cart" in its name
         cta |-> "Learn More"]

calculate_optimal_send_time(cust) ==
    LET pattern == Get(cust, "engagement_pattern", "morning")
        optimal_time == CASE pattern = "morning" -> "09:00"
                          [] pattern = "afternoon" -> "14:00"
                          [] pattern = "evening" -> "19:00"
                          [] OTHER -> "10:00"
    IN  <<optimal_time, Get(cust, "timezone", "UTC")>>

campaign_decide(agent_input) ==
    LET cust == agent_input.customer_data
        lifecycle_stage == Get(cust, "lifecycle_stage", "active")
        trigger == Get(agent_input.context, "trigger", "none")
        selected == select_campaign(lifecycle_stage)
        campaign == selected.campaign
    IN  IF ~evaluate_trigger(trigger, cust)
        THEN create_decision("CampaignAgent", agent_input.customer_id,
                 "skip_campaign", NoParameters, 900, NoParameters, FALSE,
                 Reasoning("Trigger conditions not met or customer not eligible",
                           <<>>, <<>>))
        ELSE IF ~selected.found
        THEN create_decision("CampaignAgent", agent_input.customer_id,
                 "skip_campaign", NoParameters, 900, NoParameters, FALSE,
                 Reasoning("No appropriate campaign template for lifecycle stage",
                           <<>>, <<>>))
        ELSE create_decision("CampaignAgent", agent_input.customer_id,
                 "execute_campaign",
                 [campaign_name |-> campaign.name,
                  channels |-> campaign.channels,
                  copy |-> generate_copy(campaign, cust),
                  send_time |-> calculate_optimal_send_time(cust),
                  lifecycle_stage |-> lifecycle_stage],
                 880,
                 [frequency_cap_check |-> TRUE, compliance_check |-> TRUE,
                  content_moderation |-> TRUE],
                 FALSE,
                 Reasoning("Triggered by {}. Lifecycle stage: {}. Campaign: {}",
                           <<>>, <<trigger, lifecycle_stage, campaign.name>>))

(***************************************************************************)
(* Lifecycle policy (agents/lifecycle_agent.py).  The churn risk is a sum  *)
(* of binary floats, so it can come out a rounding error above or below    *)
(* the decimal it stands for: a risk is kept as [milli, off], the decimal  *)
(* in thousandths and the sign of the sum's distance from it.              *)
(***************************************************************************)
\* the factor combinations <<recency, frequency, engagement, value>> whose float
\* sum, added in this order, lies above the float of its decimal
FloatSumAbove ==
    { <<0, 0, 100, 50>>, <<0, 100, 0, 50>>, <<0, 100, 100, 100>>, <<0, 200, 0, 100>>,
      <<0, 200, 100, 0>>, <<0, 200, 100, 50>>, <<200, 0, 0, 100>>, <<200, 0, 100, 0>>,
      <<200, 0, 100, 50>>, <<200, 100, 0, 0>>, <<200, 100, 0, 50>>, <<200, 100, 250, 50>>,
      <<200, 200, 250, 50>>, <<400, 0, 250, 50>>, <<400, 200, 0, 0>>, <<400, 200, 0, 50>>,
      <<400, 200, 0, 100>>, <<400, 200, 100, 0>>, <<400, 200, 100, 50>>,
      <<400, 200, 250, 0>>, <<400, 200, 250, 50>>, <<400, 200, 250, 100>> }

\* and those whose float sum lies below it
FloatSumBelow == { <<0, 100, 250, 50>>, <<0, 100, 250, 100>> }

\* risk > threshold, the threshold a decimal literal in thousandths
risk_above(risk, threshold) ==
    risk.milli > threshold \/ (risk.milli = threshold /\ risk.off = 1)

calculate_churn_risk(cust) ==
    LET days_since_last_activity == Get(cust, "days_since_last_activity", 0)
        purchase_frequency == Get(cust, "purchase_frequency_days", 999)
        engagement_score == Get(cust, "engagement_score", 500)
        customer_value == Get(cust, "customer_value", 500)
        recency == IF days_since_last_activity > 180 THEN 400
                   ELSE IF days_since_last_activity > 90 THEN 200 ELSE 0
        frequency == IF purchase_frequency > 120 THEN 200
                     ELSE IF purchase_frequency > 60 THEN 100 ELSE 0
        engagement == IF engagement_score < 200 THEN 250
                      ELSE IF engagement_score < 500 THEN 100 ELSE 0
        value == IF customer_value < 200 THEN 100
                 ELSE IF customer_value < 500 THEN 50 ELSE 0
        factors == <<recency, frequency, engagement, value>>
    IN  [milli |-> Min(1000, recency + frequency + engagement + value),
         off |-> IF factors \in FloatSumAbove THEN 1
                 ELSE IF factors \in FloatSumBelow THEN 0 - 1 ELSE 0]

determine_lifecycle_stage(cust, churn_risk) ==
    IF Get(cust, "days_since_signup", 999) < 30 THEN "new"
    ELSE IF risk_above(churn_risk, 600) THEN "at_risk"
    ELSE IF Get(cust, "days_since_last_activity", 0) > 180 THEN "churned"
    ELSE "active"

determine_action(stage, churn_risk, cust) ==
    LET base_action ==
            CASE stage = "new" -> "trigger_onboarding"
              [] stage = "active" -> IF risk_above(churn_risk, 300)
                                     THEN "trigger_engagement_campaign"
                                     ELSE "track_engagement"
              [] stage = "at_risk" -> "trigger_retention_campaign"
              [] stage = "churned" -> "trigger_winback_campaign"
              [] OTHER -> "monitor"
    IN  IF Get(cust, "customer_value", 0) > 5000 THEN "escalate_to_vip_support"
        ELSE base_action

lifecycle_decide(agent_input) ==
    LET cust == agent_input.customer_data
        churn_risk == calculate_churn_risk(cust)
        current_stage == Get(cust, "lifecycle_stage", "active")
        target_stage == determine_lifecycle_stage(cust, churn_risk)
        action == determine_action(target_stage, churn_risk, cust)
        requires_review == risk_above(churn_risk, 700)
                           \/ Get(cust, "customer_value", 0) > 5000
    IN  create_decision("LifecycleAgent", agent_input.customer_id, action,
            [current_stage |-> current_stage,
             target_stage |-> target_stage,
             churn_risk |-> churn_risk.milli,
             customer_value |-> Get(cust, "customer_value", 0),
             action_type |-> action],
            860,
            [frequency_cap_check |-> TRUE, vip_status_check |-> TRUE,
             retention_budget_check |-> TRUE],
            requires_review,
            Reasoning("Churn risk: {}. Stage transition: {} -> {}",
                      <<churn_risk.milli>>, <<current_stage, target_stage>>))

(***************************************************************************)
(* Creative testing policy (agents/creative_testing_agent.py).  The two    *)
(* random.uniform scores of each variation are an input of the decision:   *)
(* `draws` holds one [brand, tone] pair per variation, in thousandths.     *)
(***************************************************************************)
check_test_eligibility(campaign_id, context) ==
    LET min_volume == Get(context, "expected_volume", 0)
        last_test_days == Get(context, "days_since_last_test", 999)
    IN  IF min_volume < 1000
        THEN [eligible |-> FALSE,
              reason |-> "Campaign volume too low for statistical significance"]
        ELSE IF last_test_days < 7
        THEN [eligible |-> FALSE,
              reason |-> "Campaign tested too recently; allow cooling period"]
        ELSE [eligible |-> TRUE, reason |-> "Campaign meets testing criteria"]

generate_variations(original_creative) ==
    << [name |-> "Control (Original)",
        subject |-> Get(original_creative, "subject", "Check this out!"),
        body |-> Get(original_creative, "body", "We have something special for you."),
        cta |-> Get(original_creative, "cta", "Learn More")],
       [name |-> "Variation A (Curiosity-driven)",
        subject |-> "You won't believe what we found for you",
        body |-> "Our team discovered something special that matches your interests. Take a peek inside.",
        cta |-> "Show Me"],
       [name |-> "Variation B (Benefit-focused)",
        subject |-> "Save 20% on items you'll love",
        body |-> "Based on your recent browsing, we've curated a selection just for you. Enjoy an exclusive discount.",
        cta |-> "Claim Discount"],
       [name |-> "Variation C (FOMO/Urgency)",
        subject |-> "Only 24 hours: Your personalized picks",
        body |-> "We saved these items for you, but they're selling fast. Secure yours before they're gone.",
        cta |-> "Shop Now"],
       [name |-> "Variation D (Social Proof)",
        subject |-> "1000+ customers loved this - your turn?",
        body |-> "Join thousands of happy customers who discovered these bestsellers. See what everyone's raving about.",
        cta |-> "Explore Now"] >>

\* overall = brand * 0.3 + tone * 0.4 + 0.95 * 0.3, in units of 1/10000
score_of(var, draw) ==
    [name |-> var.name, subject |-> var.subject, body |-> var.body, cta |-> var.cta,
     brand_consistency_score |-> draw.brand,
     tone_consistency_score |-> draw.tone,
     length_score |-> 950,
     overall_score |-> draw.brand * 3 + draw.tone * 4 + 950 * 3]

RECURSIVE insert_by_score(_, _)
\* `v` put behind every variation whose overall score is not smaller than its own
insert_by_score(v, sorted) ==
    IF sorted = <<>> THEN <<v>>
    ELSE IF Head(sorted).overall_score < v.overall_score
         THEN <<v>> \o sorted
         ELSE <<Head(sorted)>> \o insert_by_score(v, Tail(sorted))

RECURSIVE sort_from(_, _)
sort_from(scored, sorted) ==
    IF scored = <<>> THEN sorted
    ELSE sort_from(Tail(scored), insert_by_score(Head(scored), sorted))

\* scored.sort(key=overall_score, reverse=True): stable, ties keep their order
score_variations(variations, draws) ==
    sort_from([i \in 1..Len(variations) |-> score_of(variations[i], draws[i])], <<>>)

\* 0.70 / (n - 1) as the floats give it: round(pct * 100, 1) in tenths of a
\* percent, and int(10000 * pct), which falls one short when the quotient is a
\* float just under the fraction (n = 6 and n = 8)
exploit_traffic(n) == (7000 \div (n - 1) + 5) \div 10

exploit_sample_size(n) == 7000 \div (n - 1) - (IF n \in {6, 8} THEN 1 ELSE 0)

design_test_allocation(scored_variations) ==
    LET n == Len(scored_variations)
        names == { scored_variations[i].name : i \in 1..n }
        \* a later variation with the same name overwrites the earlier entry
        last(name) == CHOOSE i \in 1..n :
                         /\ scored_variations[i].name = name
                         /\ \A j \in 1..n : scored_variations[j].name = name => j <= i
    IN  [total_sample_size |-> 10000,
         variants |-> [name \in names |->
                          IF last(name) = 1
                          THEN [traffic_percentage |-> 300, sample_size |-> 3000]
                          ELSE [traffic_percentage |-> exploit_traffic(n),
                                sample_size |-> exploit_sample_size(n)]]]

creative_decide(agent_input, draws) ==
    LET context == agent_input.context
        campaign_id == Get(context, "campaign_id", "unknown")
        original_creative == Get(context, "original_creative", NoParameters)
        test_eligibility == check_test_eligibility(campaign_id, context)
        variations == generate_variations(original_creative)
        scored_variations == score_variations(variations, draws)
        test_allocation == design_test_allocation(scored_variations)
    IN  IF ~test_eligibility.eligible
        THEN create_decision("CreativeTestingAgent", agent_input.customer_id,
                 "skip_test", [reason |-> test_eligibility.reason], 900,
                 NoParameters, FALSE,
                 Reasoning(test_eligibility.reason, <<>>, <<>>))
        ELSE create_decision("CreativeTestingAgent", agent_input.customer_id,
                 "execute_creative_test",
                 [campaign_id |-> campaign_id,
                  variations |-> scored_variations,
                  allocation |-> test_allocation,
                  test_duration_days |-> 7,
                  confidence_threshold |-> 950],
                 870,
                 [brand_consistency_check |-> TRUE, compliance_check |-> TRUE,
                  tone_consistency_check |-> TRUE],
                 FALSE,
                 Reasoning("Launching creative test with {} variations. Sample size: {}",
                           <<Len(variations), test_allocation.total_sample_size>>, <<>>))

(***************************************************************************)
(* The four agents.  decide either returns a decision or raises:           *)
(* LifecycleStage(value) is a ValueError for a value that names no stage.  *)
(* _create_decision gives the decision a fresh uuid4 and the current time  *)
(* and appends it to the agent's decision_log.                             *)
(***************************************************************************)
AgentKeys == {"campaign_agent", "lifecycle_agent", "creative_agent", "winback_agent"}

uuid4(n) == "uuid-" \o ToString(n)

AgentDecision(body, decision_id, timestamp) ==
    [decision_id |-> decision_id, timestamp |-> timestamp] @@ body

valid_stage(cust) == Get(cust, "lifecycle_stage", "active") \in LifecycleStages

decide(agent, agent_input, draws) ==
    CASE agent = "winback_agent" -> Returned(cart_winback_decide(agent_input))
      [] agent = "creative_agent" -> Returned(creative_decide(agent_input, draws))
      [] agent = "lifecycle_agent" ->
            IF valid_stage(agent_input.customer_data)
            THEN Returned(lifecycle_decide(agent_input)) ELSE Raised
      [] agent = "campaign_agent" ->
            IF valid_stage(agent_input.customer_data)
            THEN Returned(campaign_decide(agent_input)) ELSE Raised

(***************************************************************************)
(* The agents on their own: decide called with any input                   *)
(***************************************************************************)
MaxDecide == 2

\* cart agent: carts around the 20, 200 and 500 marks in both tiers, dormant
\* customers around the 90 day mark, an action type the agent does not know
CartInputs ==
    { AgentInput("cust_003", [customer_id |-> "cust_003", cart_value |-> v, vip_status |-> vip],
                 [trigger |-> "cart_abandoned"]) :
          v \in {0, 19, 20, 200, 201, 500, 501}, vip \in BOOLEAN }
    \cup
    { AgentInput("cust_002", [customer_id |-> "cust_002", days_since_last_activity |-> d,
                              customer_value |-> v],
                 [action_type |-> "win_back"]) :
          d \in {89, 90}, v \in {300, 301, 1001, 2001} }
    \cup
    { AgentInput("cust_002", [customer_id |-> "cust_002"], [action_type |-> "survey"]) }

CampaignInputs ==
    { AgentInput("cust_001", [customer_id |-> "cust_001", first_name |-> "Sarah",
                              lifecycle_stage |-> st, cart_value |-> v],
                 [trigger |-> tr]) :
          st \in {"active", "at_risk", "churned"},
          v \in {0, 250},
          tr \in {"none", "cart_abandoned", "lifecycle_change", "birthday"} }
    \cup
    { AgentInput("cust_001", [customer_id |-> "cust_001", days_since_signup |-> d],
                 [trigger |-> "new_signup"]) : d \in {0, 1} }
    \cup
    { AgentInput("cust_001", [customer_id |-> "cust_001"], NoParameters) }

\* lifecycle agent: among them the sums 0.6 and 0.7 that the floats put above
\* the threshold
LifecycleInputs ==
    { AgentInput("cust_002", cust, [trigger |-> "lifecycle_change"]) :
          cust \in
            { [lifecycle_stage |-> "at_risk", days_since_signup |-> 180,
               days_since_last_activity |-> 120, purchase_frequency_days |-> 90,
               engagement_score |-> 0, customer_value |-> v] : v \in {300, 750, 6000} }
            \cup
            { [lifecycle_stage |-> "active", days_since_signup |-> 400,
               days_since_last_activity |-> 200, purchase_frequency_days |-> f,
               engagement_score |-> e, customer_value |-> 100] :
                  f \in {30, 999}, e \in {0, 1000} }
            \cup
            { [lifecycle_stage |-> "new", days_since_signup |-> 2],
              [days_since_last_activity |-> 5, purchase_frequency_days |-> 30] } }

\* one [brand, tone] draw per variation: all alike, the control lowest, mixed
ScoreDraws ==
    { [i \in 1..5 |-> [brand |-> 900, tone |-> 900]],
      [i \in 1..5 |-> IF i = 1 THEN [brand |-> 800, tone |-> 850]
                      ELSE [brand |-> 1000, tone |-> 1000]],
      << [brand |-> 900, tone |-> 900], [brand |-> 800, tone |-> 850],
         [brand |-> 1000, tone |-> 1000], [brand |-> 900, tone |-> 900],
         [brand |-> 800, tone |-> 1000] >> }

CreativeInputs ==
    UNION { Dicts([customer_id |-> "cust_001", customer_data |-> [customer_id |-> "cust_001"],
                   context |-> ctx], {}) :
            ctx \in UNION { Dicts([campaign_id |-> "camp_1", expected_volume |-> vol,
                                   days_since_last_test |-> last],
                                  {"expected_volume", "days_since_last_test"}) :
                            vol \in {999, 1000}, last \in {6, 7} } }

PolicyIdle ==
    /\ decision_log = [a \in AgentKeys |-> <<>>]
    /\ next_id = 1
    /\ decide_calls = <<>>

\* one call of agent.decide: the decision it returns is the one it appended to
\* its decision_log; a call that raises leaves the log as it was
Decide(agent, agent_input, draws) ==
    LET out == decide(agent, agent_input, draws)
        decision == AgentDecision(out.result, uuid4(next_id), now)
    IN  /\ Len(decide_calls) < MaxDecide
        /\ decision_log' = IF out.raised THEN decision_log
                           ELSE [decision_log EXCEPT ![agent] = Append(@, decision)]
        /\ next_id' = IF out.raised THEN next_id ELSE next_id + 1
        /\ decide_calls' =
              Append(decide_calls,
                     IF out.raised THEN [agent |-> agent, input |-> agent_input,
                                         raised |-> TRUE]
                     ELSE [agent |-> agent, input |-> agent_input, raised |-> FALSE,
                           decision |-> decision])

CartDecide == \E i \in CartInputs : Decide("winback_agent", i, <<>>)

CampaignDecide == \E i \in CampaignInputs : Decide("campaign_agent", i, <<>>)

LifecycleDecide == \E i \in LifecycleInputs : Decide("lifecycle_agent", i, <<>>)

CreativeDecide ==
    \E i \in CreativeInputs, draws \in ScoreDraws : Decide("creative_agent", i, draws)

(***************************************************************************)
(* Data pipeline (data_pipeline/data_source.py)                            *)
(***************************************************************************)
\* MockDataSource.get_customer: the mock_customers table
mock_customers ==
    [cust_001 |-> [id |-> "cust_001", first_name |-> "Sarah", email |-> "sarah@example.com",
                   phone |-> "+1234567890", lifecycle_stage |-> "new",
                   engagement_score |-> 700, ltv |-> 0, purchases |-> 0, days_signup |-> 2,
                   days_inactive |-> 1, timezone |-> "UTC-5", gdpr_consent |-> TRUE,
                   vip |-> FALSE, cart_value |-> 0],
     cust_002 |-> [id |-> "cust_002", first_name |-> "John", email |-> "john@example.com",
                   phone |-> "+1987654321", lifecycle_stage |-> "at_risk",
                   engagement_score |-> 200, ltv |-> 750, purchases |-> 3,
                   days_signup |-> 180, days_inactive |-> 120, freq_days |-> 90,
                   timezone |-> "UTC-7", gdpr_consent |-> TRUE, vip |-> FALSE,
                   cart_value |-> 0],
     cust_003 |-> [id |-> "cust_003", first_name |-> "Emma", email |-> "emma@example.com",
                   phone |-> "+1555555555", lifecycle_stage |-> "active",
                   engagement_score |-> 650, ltv |-> 2000, purchases |-> 8,
                   days_signup |-> 100, days_inactive |-> 5, timezone |-> "UTC-5",
                   gdpr_consent |-> TRUE, vip |-> FALSE, cart_value |-> 250,
                   cart_items |-> <<"Product A", "Product B">>]]

\* a slip: an id the table does not hold is served the first record
get_customer_or_first(table, customer_id) ==
    IF customer_id \in DOMAIN table
    THEN [found |-> TRUE, customer |-> table[customer_id]]
    ELSE [found |-> TRUE, customer |-> table["cust_001"]]

\* mock_customers.get(customer_id): the record, or None
get_customer(table, customer_id) ==
    IF customer_id \in DOMAIN table
    THEN [found |-> TRUE, customer |-> table[customer_id]]
    ELSE [found |-> FALSE]

\* MockDataSource.get_customer_events: the event types, oldest position first
mock_events ==
    [cust_001 |-> <<"page_view", "page_view", "email_open">>,
     cust_002 |-> <<"email_bounce">>,
     cust_003 |-> <<"add_to_cart", "email_open", "email_click", "purchase">>]

get_customer_events(customer_id) == Get(mock_events, customer_id, <<>>)

\* event_weights, in tenths
event_weights ==
    [email_open |-> 3, email_click |-> 5, purchase |-> 10, page_view |-> 1,
     add_to_cart |-> 4, email_bounce |-> 0 - 5, email_complaint |-> 0 - 10]

Abs(n) == IF n < 0 THEN 0 - n ELSE n

RECURSIVE weighted_sum(_, _, _)
\* the sum of weight * recency_factor (or of abs(weight) * recency_factor) from
\* the i-th event on, in units of 1/300
weighted_sum(events, i, absolute) ==
    IF i > Len(events) THEN 0
    ELSE LET weight == Get(event_weights, events[i], 1)
         IN  (IF absolute THEN Abs(weight) ELSE weight) * i
             + weighted_sum(events, i + 1, absolute)

\* at most 30 events reach it; the score is in thousandths
calculate_engagement_score(event_data) ==
    LET score == weighted_sum(event_data, 1, FALSE)
        total_weight == weighted_sum(event_data, 1, TRUE)
    IN  IF event_data = <<>> \/ total_weight = 0 THEN 500
        ELSE Min(Max((score * 1000) \div total_weight, 0), 1000)

normalize_customer_data(raw_data) ==
    [customer_id |-> IF "id" \in DOMAIN raw_data THEN raw_data.id
                     ELSE Get(raw_data, "customer_id", NoneValue),
     first_name |-> Get(raw_data, "first_name", ""),
     email |-> Get(raw_data, "email", ""),
     phone |-> Get(raw_data, "phone", ""),
     lifecycle_stage |-> Get(raw_data, "lifecycle_stage", "active"),
     engagement_score |-> Get(raw_data, "engagement_score", 500),
     customer_value |-> Get(raw_data, "ltv", Get(raw_data, "customer_value", 0)),
     purchase_count |-> Get(raw_data, "purchases", Get(raw_data, "purchase_count", 0)),
     days_since_signup |-> Get(raw_data, "days_signup", Get(raw_data, "days_since_signup", 0)),
     days_since_last_activity |->
         Get(raw_data, "days_inactive", Get(raw_data, "days_since_last_activity", 0)),
     purchase_frequency_days |->
         Get(raw_data, "freq_days", Get(raw_data, "purchase_frequency_days", 999)),
     timezone |-> Get(raw_data, "timezone", "UTC"),
     gdpr_consent |-> Get(raw_data, "gdpr_consent", FALSE),
     email_unsubscribed |->
         Get(raw_data, "unsubscribed", Get(raw_data, "email_unsubscribed", FALSE)),
     vip_status |-> Get(raw_data, "vip", Get(raw_data, "vip_status", FALSE)),
     cart_value |-> Get(raw_data, "cart_value", 0),
     cart_items |-> Get(raw_data, "cart_items", <<>>)]

\* in thousandths; the value is only ever printed
calculate_churn_score(cust) ==
    LET days_inactive == Get(cust, "days_since_last_activity", 0)
        freq_days == Get(cust, "purchase_frequency_days", 999)
        customer_value == Get(cust, "customer_value", 500)
    IN  Min((IF days_inactive > 180 THEN 400 ELSE IF days_inactive > 90 THEN 200 ELSE 0)
            + (IF freq_days > 120 THEN 200 ELSE IF freq_days > 60 THEN 100 ELSE 0)
            + (IF customer_value < 200 THEN 100 ELSE 0),
            1000)

enrich_customer(raw_data, timestamp) ==
    LET normalized == normalize_customer_data(raw_data)
    IN  [churn_risk |-> calculate_churn_score(normalized),
         last_enriched |-> timestamp]
        @@ [normalized EXCEPT !.engagement_score =
                calculate_engagement_score(get_customer_events(normalized.customer_id))]

(***************************************************************************)
(* process_customer (main.py).  A run goes through the numbered steps of   *)
(* the method; `run` holds its arguments and locals, `trace` the steps it  *)
(* has taken, `entry` what the run found when it was entered.              *)
(***************************************************************************)
MaxRuns == 2

KnownIds == DOMAIN mock_customers

CustomerIds == KnownIds \cup {"cust_999"}

\* the records the source may hold: the mock table, or the mock table with one
\* field of one record as another customer could have it
SourceOverrides ==
    { [gdpr_consent |-> FALSE], [cart_value |-> 600], [vip |-> TRUE],
      [lifecycle_stage |-> "churned"] }

\* consent withdrawn by any customer; the other fields on the customer with a cart
overrides_of(id) ==
    IF id = "cust_003" THEN SourceOverrides ELSE {[gdpr_consent |-> FALSE]}

SourceTables ==
    {mock_customers}
    \cup UNION { { [mock_customers EXCEPT ![id] = ov @@ @] : ov \in overrides_of(id) } :
                 id \in KnownIds }

Triggers == {"cart_abandoned", "creative_refresh", "ab_test", "lifecycle_change",
             "purchase_milestone", "win_back", "none", "Cart_Lifecycle",
             "lifecycle_test"}

\* word in trigger.lower(), for the triggers above
trigger_has(trigger, word) ==
    CASE word = "cart" -> trigger \in {"cart_abandoned", "Cart_Lifecycle"}
      [] word = "creative" -> trigger \in {"creative_refresh"}
      [] word = "test" -> trigger \in {"ab_test", "lifecycle_test"}
      [] word = "lifecycle" ->
            trigger \in {"lifecycle_change", "Cart_Lifecycle", "lifecycle_test"}
      [] OTHER -> FALSE

\* the chain with the lifecycle branch tried first
route_lifecycle_first(trigger) ==
    IF trigger_has(trigger, "lifecycle") THEN "lifecycle_agent"
    ELSE IF trigger_has(trigger, "cart") THEN "winback_agent"
    ELSE IF trigger_has(trigger, "creative") \/ trigger_has(trigger, "test")
    THEN "creative_agent"
    ELSE "campaign_agent"

\* the if/elif chain of _get_agent_decision
route(trigger) ==
    IF trigger_has(trigger, "cart") THEN "winback_agent"
    ELSE IF trigger_has(trigger, "creative") \/ trigger_has(trigger, "test")
    THEN "creative_agent"
    ELSE IF trigger_has(trigger, "lifecycle") THEN "lifecycle_agent"
    ELSE "campaign_agent"

\* the counts the checks read off subject + " " + body: every content the
\* pipeline renders, the empty one and the three templates, gives the same
text_features(subject, body) ==
    IF subject = "" /\ body = "" THEN EmptyText ELSE TemplateText

copy_of(decision) == Get(decision.parameters, "copy", NoParameters)

\* _apply_guardrails
apply_guardrails(cust, decision) ==
    LET subject == Get(copy_of(decision), "subject", "")
        body == Get(copy_of(decision), "body", "")
    IN  run_all_checks(cust,
            [content |-> text_features(subject, body),
             subject |-> subject,
             body |-> body,
             from_address |-> "noreply@yourbrand.com",
             unsubscribe_link |-> "https://yourbrand.com/unsubscribe",
             physical_address |-> "123 Main St, City, Country"])

\* a slip: the gate's verdict is not consulted
should_execute_any_verdict(guardrail_pass, action) ==
    action # "skip_campaign" /\ action # "skip"

\* the condition of step 4
should_execute(guardrail_pass, action) ==
    guardrail_pass /\ action # "skip_campaign" /\ action # "skip"

\* the campaign_data of _execute_decision
\* a slip: a decision that names no channel goes out on two
campaign_data_of_two_channels(decision) ==
    [channels |-> Get(decision.parameters, "channels", <<"email", "sms">>),
     subject |-> Get(copy_of(decision), "subject", ""),
     body |-> Get(copy_of(decision), "body", ""),
     html |-> ""]

campaign_data_of(decision) ==
    [channels |-> Get(decision.parameters, "channels", <<"email">>),
     subject |-> Get(copy_of(decision), "subject", ""),
     body |-> Get(copy_of(decision), "body", ""),
     html |-> ""]

\* AgentDecision.to_dict
to_dict(decision) ==
    [k \in {"decision_id", "agent_name", "customer_id", "action", "parameters",
            "confidence", "guardrail_checks", "requires_human_review", "timestamp",
            "reasoning"} |-> decision[k]]

\* a slip: every check is logged as passed
passed_map_all_true(guardrail_results) ==
    [n \in DOMAIN guardrail_results |-> TRUE]

\* {name: result.passed for name, result in guardrail_results.items()}
passed_map(guardrail_results) ==
    [n \in DOMAIN guardrail_results |-> guardrail_results[n].passed]

\* the "checks" part of the result
checks_summary(guardrail_results) ==
    [n \in DOMAIN guardrail_results |->
        [passed |-> guardrail_results[n].passed,
         severity |-> guardrail_results[n].severity]]

NoResult == [status |-> "none"]

NoRun == [customer_id |-> NoneValue, trigger |-> NoneValue]

PipelineIdle ==
    /\ pc = "idle"
    /\ run = NoRun
    /\ result = NoResult
    /\ runs = 0
    /\ trace = <<>>
    /\ entry = [execution_history |-> <<>>, audit_log |-> <<>>,
                decision_log |-> [a \in AgentKeys |-> <<>>]]

\* step 1, and the return of a run whose customer the source does not hold
FetchCustomer ==
    /\ pc = "idle"
    /\ runs < MaxRuns
    /\ \E customer_id \in CustomerIds, trigger \in Triggers, table \in SourceTables :
          LET raw_customer == get_customer(table, customer_id)
          IN  IF ~raw_customer.found
              THEN /\ run' = [customer_id |-> customer_id, trigger |-> trigger]
                   /\ result' = [status |-> "failed",
                                 error |-> "Customer " \o customer_id \o " not found"]
                   /\ pc' = "idle"
              ELSE /\ run' = [customer_id |-> customer_id, trigger |-> trigger,
                              raw_customer |-> raw_customer.customer]
                   /\ result' = NoResult
                   /\ pc' = "fetched"
    /\ runs' = runs + 1
    /\ trace' = <<"fetch">>
    /\ entry' = [execution_history |-> execution_history, audit_log |-> audit_log,
                 decision_log |-> decision_log]
    /\ UNCHANGED <<decision_log, next_id, execution_history, audit_log>>

\* step 1, second half: enrich_customer
EnrichCustomer ==
    /\ pc = "fetched"
    /\ run' = [customer_data |-> enrich_customer(run.raw_customer, now)] @@ run
    /\ pc' = "enriched"
    /\ trace' = Append(trace, "enrich")
    /\ UNCHANGED <<result, runs, entry, decision_log, next_id, execution_history, audit_log>>

\* step 2: _get_agent_decision; an exception of decide leaves process_customer
GetAgentDecision ==
    /\ pc = "enriched"
    /\ LET agent == route(run.trigger)
           agent_input == AgentInput(run.customer_id, run.customer_data,
                                     [trigger |-> run.trigger])
           out == decide(agent, agent_input, <<>>)
           decision == AgentDecision(out.result, uuid4(next_id), now)
       IN  IF out.raised
           THEN /\ pc' = "raised"
                /\ UNCHANGED <<run, decision_log, next_id>>
           ELSE /\ pc' = "decided"
                /\ run' = [agent |-> agent, decision |-> decision] @@ run
                /\ decision_log' = [decision_log EXCEPT ![agent] = Append(@, decision)]
                /\ next_id' = next_id + 1
    /\ trace' = Append(trace, "decide")
    /\ UNCHANGED <<result, runs, entry, execution_history, audit_log>>

\* step 3: _apply_guardrails
ApplyGuardrails ==
    /\ pc = "decided"
    /\ LET gate == apply_guardrails(run.customer_data, run.decision)
       IN  run' = [guardrail_pass |-> gate.all_passed,
                   guardrail_results |-> gate.results] @@ run
    /\ pc' = "checked"
    /\ trace' = Append(trace, "guardrails")
    /\ UNCHANGED <<result, runs, entry, decision_log, next_id, execution_history, audit_log>>

\* step 4: _execute_decision when the condition holds, no results otherwise
ExecuteDecision ==
    /\ pc = "checked"
    /\ IF should_execute(run.guardrail_pass, run.decision.action)
       THEN LET out == execute_campaign(run.customer_id, run.customer_data,
                                        campaign_data_of(run.decision))
            IN  /\ execution_history' = execution_history \o out.results
                /\ trace' = Append(trace, "dispatch")
                /\ IF out.raised
                   THEN pc' = "raised" /\ run' = run
                   ELSE pc' = "executed"
                        /\ run' = [execution_results |-> out.results] @@ run
       ELSE /\ run' = [execution_results |-> <<>>] @@ run
            /\ pc' = "executed"
            /\ UNCHANGED <<execution_history, trace>>
    /\ UNCHANGED <<result, runs, entry, decision_log, next_id, audit_log>>

\* step 5: audit.log_decision
AuditDecision ==
    /\ pc = "executed"
    /\ audit_log' = Append(audit_log,
                           log_decision_entry(now, to_dict(run.decision),
                                              passed_map(run.guardrail_results),
                                              run.decision.requires_human_review))
    /\ pc' = "logged"
    /\ trace' = Append(trace, "audit")
    /\ UNCHANGED <<run, result, runs, entry, decision_log, next_id, execution_history>>

\* the result is compiled and returned
ReturnResult ==
    /\ pc = "logged"
    /\ result' = [status |-> "success",
                  customer_id |-> run.customer_id,
                  trigger |-> run.trigger,
                  decision |-> to_dict(run.decision),
                  guardrails |-> [passed |-> run.guardrail_pass,
                                  checks |-> checks_summary(run.guardrail_results)],
                  execution |-> IF run.execution_results # <<>>
                                THEN [none |-> FALSE, results |-> run.execution_results]
                                ELSE [none |-> TRUE]]
    /\ pc' = "idle"
    /\ trace' = Append(trace, "return")
    /\ UNCHANGED <<run, runs, entry, decision_log, next_id, execution_history, audit_log>>

(***************************************************************************)
(* Significance (analytics/metrics.py).  An ABTest keeps its variants in a *)
(* dict, read in insertion order: `order` is that order, the first id the  *)
(* control.  The statistic is a float in the code; here it is the exact    *)
(* fraction the same expression has.  With n1, n2 the impressions, c1, c2  *)
(* the conversions and p_pool = (c1 + c2) / (n1 + n2), the sum             *)
(*   (c1 - n1 p_pool)^2 / (n1 p_pool) + (c2 - n2 p_pool)^2 / (n2 p_pool)   *)
(* equals (c1 n2 - c2 n1)^2 / ((c1 + c2) n1 n2), kept in lowest terms of   *)
(* n1 and n2 so that the products stay small.  p-values and confidence     *)
(* levels are in thousandths.                                              *)
(***************************************************************************)
MaxImpressions == 1000
MaxConversions == 90

VariantOrders ==
    { <<"control">>, <<"control", "variant_a">>, <<"control", "variant_a", "variant_b">> }

ConfidenceLevels == {800, 900, 950, 990}

\* ABTest(test_id, name, created_at, variants, confidence_level=...)
ABTest(order, confidence_level) ==
    [order |-> order,
     variants |-> [v \in {order[i] : i \in DOMAIN order} |-> ABTestVariant(v)],
     status |-> "running", winner |-> NoneValue, confidence_level |-> confidence_level]

\* ABTest.record_event, its three steps taken without interruption
record_event(test, variant_id, event_type, value) ==
    IF variant_id \notin DOMAIN test.variants \/ counter_of(event_type) = NoneValue
    THEN test
    ELSE [test EXCEPT !.variants[variant_id][counter_of(event_type)] = @ + value]

\* ABTestVariant.conversion_rate, as a fraction
conversion_rate(variant) ==
    IF variant.impressions = 0 THEN [num |-> 0, den |-> 1]
    ELSE [num |-> variant.conversions, den |-> variant.impressions]

rate_greater(a, b) == a.num * b.den > b.num * a.den

RECURSIVE gcd(_, _)
gcd(a, b) == IF b = 0 THEN a ELSE gcd(b, a % b)

\* ABTest._calculate_chi_square: 0 when a side has no impressions; dividing
\* by an expected count of 0.0 raises ZeroDivisionError
calculate_chi_square(variant1, variant2) ==
    LET n1 == variant1.impressions
        n2 == variant2.impressions
        conversions == variant1.conversions + variant2.conversions
        g == gcd(n1, n2)
        d == variant1.conversions * (n2 \div g) - variant2.conversions * (n1 \div g)
    IN  IF n1 = 0 \/ n2 = 0 THEN Returned([num |-> 0, den |-> 1])
        ELSE IF conversions = 0 THEN Raised
        ELSE Returned([num |-> d * d, den |-> conversions * (n1 \div g) * (n2 \div g)])

\* ABTest._chi_square_to_p_value: the stepwise table
chi_square_to_p_value(chi_square) ==
    IF 10 * chi_square.num < 27 * chi_square.den THEN 100
    ELSE IF 10 * chi_square.num < 38 * chi_square.den THEN 50
    ELSE IF 10 * chi_square.num < 66 * chi_square.den THEN 10
    ELSE 1

\* the float `1 - self.confidence_level`: the thousandths it prints as, and
\* the side of that decimal the float lies on (1 - 0.95 is
\* 0.050000000000000044, 1 - 0.9 is 0.09999999999999998)
one_minus(confidence_level) ==
    [milli |-> 1000 - confidence_level,
     off |-> IF confidence_level \in {950, 990} THEN 1 ELSE -1]

\* `p_value < (1 - self.confidence_level)` between floats
p_value_below(p_value, bound) ==
    p_value < bound.milli \/ (p_value = bound.milli /\ bound.off = 1)

RECURSIVE first_winner(_, _)
first_winner(test, i) ==
    IF i > Len(test.order) THEN Returned(NoneValue)
    ELSE LET control == test.variants[test.order[1]]
             variant == test.variants[test.order[i]]
             chi_square == calculate_chi_square(control, variant)
         IN  IF chi_square.raised THEN Raised
             ELSE IF /\ p_value_below(chi_square_to_p_value(chi_square.result),
                                      one_minus(test.confidence_level))
                     /\ rate_greater(conversion_rate(variant), conversion_rate(control))
                  THEN Returned(variant.variant_id)
                  ELSE first_winner(test, i + 1)

get_statistical_winner(test) ==
    IF Len(test.order) < 2 THEN Returned(NoneValue) ELSE first_winner(test, 2)

NoOperation == [op |-> NoneValue, raised |-> FALSE, result |-> NoneValue]

WinnerTests == { ABTest(order, cl) : order \in VariantOrders, cl \in ConfidenceLevels }

WinnerIdle ==
    /\ experiment = ABTest(<<"control", "variant_a">>, 950)
    /\ last_call = NoOperation

WinnerInit ==
    /\ experiment \in WinnerTests
    /\ last_call = NoOperation

EventInputs ==
    { <<"impression", 500>>, <<"conversion", 20>>, <<"conversion", 50>>, <<"click", 1>>,
      <<"impression", -500>> }

\* record_event(variant_id, event_type, value) returns None; the counters are
\* followed between 0 and their bounds
RecordEvent ==
    \E variant_id \in DOMAIN experiment.variants \cup {"variant_x"}, ev \in EventInputs :
        LET after == record_event(experiment, variant_id, ev[1], ev[2])
        IN  /\ \A v \in DOMAIN after.variants :
                  /\ after.variants[v].impressions <= MaxImpressions
                  /\ after.variants[v].conversions <= MaxConversions
                  /\ after.variants[v].impressions >= 0
            /\ experiment' = after
            /\ last_call' = [op |-> "record_event", raised |-> FALSE, result |-> NoneValue]

\* AnalyticsManager.create_ab_test puts a new ABTest under the test id
CreateABTest ==
    /\ experiment' \in WinnerTests
    /\ last_call' = [op |-> "create_ab_test", raised |-> FALSE, result |-> NoneValue]

\* a query that keeps what it found in the experiment's winner field
GetStatisticalWinnerStoring ==
    LET out == get_statistical_winner(experiment)
    IN  /\ last_call' = [op |-> "get_statistical_winner", raised |-> out.raised,
                         result |-> IF out.raised THEN NoneValue ELSE out.result]
        /\ experiment' = IF out.raised THEN experiment
                         ELSE [experiment EXCEPT !.winner = out.result]

\* get_statistical_winner() returns an id or None, or raises; it writes nothing
GetStatisticalWinner ==
    LET out == get_statistical_winner(experiment)
    IN  /\ last_call' = [op |-> "get_statistical_winner", raised |-> out.raised,
                         result |-> IF out.raised THEN NoneValue ELSE out.result]
        /\ UNCHANGED experiment

(***************************************************************************)
(* Allocation alone: _design_test_allocation handed the ranked list of 2   *)
(* or more variations, as _score_variations returns it                     *)
(***************************************************************************)
MaxVariants == 6

\* the five variations the agent generates, then further named strategies
variations_of(n) ==
    [i \in 1..n |->
        IF i <= 5 THEN generate_variations(NoParameters)[i]
        ELSE [name |-> "Variation " \o ToString(i), subject |-> "s", body |-> "b",
              cta |-> "c"]]

DrawPool == { [brand |-> 800, tone |-> 900], [brand |-> 1000, tone |-> 900] }

AllocIdle == allocation_call = [called |-> FALSE]

DesignTestAllocation ==
    \E n \in 2..MaxVariants :
        \E draws \in [1..n -> DrawPool] :
            LET scored_variations == score_variations(variations_of(n), draws)
            IN  allocation_call' =
                    [called |-> TRUE, scored_variations |-> scored_variations,
                     allocation |-> design_test_allocation(scored_variations)]

(***************************************************************************)
(* Shared mappings.  AgentDecision.to_dict puts `self.parameters` itself   *)
(* into the dict it builds, and log_decision keeps the dict it is handed   *)
(* as decision_details.  So the decision object in the agent's             *)
(* decision_log, the ledger entry and the result of process_customer hold  *)
(* one and the same parameters mapping, while each to_dict() is a dict of  *)
(* its own.  A write through one holder is seen by all holders of the      *)
(* mapping; the holders are the records with the decision's id.            *)
(***************************************************************************)
MaxHeldRuns == 1

\* parameters["tampered"] = True on the mapping of the decision with this id
write_parameters(decision, decision_id) ==
    IF decision.decision_id = decision_id
    THEN [decision EXCEPT !.parameters = [tampered |-> TRUE] @@ @]
    ELSE decision

\* process_customer, called as often as the results are held
FetchHeld == runs < MaxHeldRuns /\ FetchCustomer

\* the caller writes into result["decision"]["parameters"]
SetResultParameter ==
    /\ pc = "idle"
    /\ result.status = "success"
    /\ "tampered" \notin DOMAIN result.decision.parameters
    /\ LET decision_id == result.decision.decision_id
       IN  /\ result' = [result EXCEPT !.decision = write_parameters(@, decision_id)]
           /\ decision_log' =
                 [a \in AgentKeys |->
                     [i \in 1..Len(decision_log[a]) |->
                         write_parameters(decision_log[a][i], decision_id)]]
           /\ audit_log' =
                 [i \in 1..Len(audit_log) |->
                     [audit_log[i] EXCEPT
                         !.decision_details = write_parameters(@, decision_id)]]
    /\ UNCHANGED <<pc, run, runs, trace, entry, next_id, execution_history>>

\* the caller writes result["decision"]["action"]: a key of the dict to_dict built
SetResultField ==
    /\ pc = "idle"
    /\ result.status = "success"
    /\ result.decision.action # "tampered"
    /\ result' = [result EXCEPT !.decision.action = "tampered"]
    /\ UNCHANGED <<pc, run, runs, trace, entry, decision_log, next_id,
                   execution_history, audit_log>>

\* a holder of the decision object sets its attribute `action`
SetDecisionField ==
    /\ pc = "idle"
    /\ \E a \in AgentKeys :
          /\ decision_log[a] # <<>>
          /\ decision_log[a][Len(decision_log[a])].action # "tampered"
          /\ decision_log' = [decision_log EXCEPT ![a][Len(decision_log[a])].action =
                                                      "tampered"]
    /\ UNCHANGED <<pc, run, result, runs, trace, entry, next_id, execution_history,
                   audit_log>>

(***************************************************************************)
(* Workflow engine (workflows/workflow_engine.py).  A call of              *)
(* execute_workflow is followed step by step: the lookup, one _execute_step *)
(* per step, the completion.  The agents registered are the repository's,  *)
(* under their class names; decide appends to the agent's decision_log.    *)
(***************************************************************************)
MaxSteps == 2
MaxExecutions == 2

\* the id create_workflow is called with, and one it is never called with
WorkflowIds == {"wf_1"}
UnknownIds == {"wf_404"}

\* the agents a caller registers, each under its name
EngineAgents ==
    [LifecycleAgent |-> "lifecycle_agent", AbandonedCartWinBackAgent |-> "winback_agent"]

\* the WorkflowState create_workflow builds
WorkflowState(workflow_id, customer_id, timestamp) ==
    [workflow_id |-> workflow_id, customer_id |-> customer_id, status |-> "pending",
     steps |-> <<>>, decisions |-> <<>>, created_at |-> timestamp,
     updated_at |-> timestamp]

WorkflowStep(step_id, name, agent_name, input_data) ==
    [step_id |-> step_id, name |-> name, agent_name |-> agent_name,
     input_data |-> input_data, status |-> "pending"]

\* a cart step and a lifecycle step whose decide returns, a lifecycle step whose
\* customer has a stage LifecycleStage does not know
StepPool ==
    { WorkflowStep("step_cart", "Abandoned Cart Recovery", "AbandonedCartWinBackAgent",
                   AgentInput("cust_003", [customer_id |-> "cust_003", cart_value |-> 250,
                                           vip_status |-> FALSE],
                              [trigger |-> "cart_abandoned"])),
      WorkflowStep("step_stage", "Lifecycle Assessment", "LifecycleAgent",
                   AgentInput("cust_003", [lifecycle_stage |-> "new", days_since_signup |-> 2],
                              [trigger |-> "lifecycle_change"])),
      WorkflowStep("step_vip", "Lifecycle Assessment", "LifecycleAgent",
                   AgentInput("cust_003", [lifecycle_stage |-> "vip", days_since_signup |-> 2],
                              [trigger |-> "lifecycle_change"])) }

StepLists == UNION { [1..n -> StepPool] : n \in 0..MaxSteps }

\* str(e) of the ValueError LifecycleStage(...) raises
decide_error(agent_input) ==
    "'" \o Get(agent_input.customer_data, "lifecycle_stage", "active")
        \o "' is not a valid LifecycleStage"

\* _execute_step: the result of decide, or the exception that leaves it
execute_step(registered, step, decision_id, timestamp) ==
    IF step.agent_name \notin DOMAIN registered
    THEN [raised |-> TRUE, error |-> "Agent " \o step.agent_name \o " not registered"]
    ELSE LET out == decide(registered[step.agent_name], step.input_data, <<>>)
         IN  IF out.raised
             THEN [raised |-> TRUE, error |-> decide_error(step.input_data)]
             ELSE [raised |-> FALSE,
                   result |-> AgentDecision(out.result, decision_id, timestamp)]

\* the record of a step that returned
completed_record(step, step_result) ==
    [step_id |-> step.step_id, name |-> step.name, agent |-> step.agent_name,
     status |-> "completed", result |-> step_result]

\* the record of a step that raised
failed_record(step, error) ==
    [step_id |-> step.step_id, name |-> step.name, agent |-> step.agent_name,
     status |-> "failed", error |-> error]

NoExecution == [pc |-> "idle", outcome |-> "none"]

WorkflowIdle ==
    /\ workflows = <<>>
    /\ registered_agents = <<>>
    /\ wf_call = NoExecution
    /\ wf_calls = 0

RegisterAgent ==
    /\ wf_call.pc = "idle"
    /\ \E agent_name \in DOMAIN EngineAgents :
          registered_agents' =
              [n \in DOMAIN registered_agents \cup {agent_name} |-> EngineAgents[n]]
    /\ UNCHANGED <<workflows, wf_call, wf_calls, decision_log, next_id>>

CreateWorkflow ==
    /\ wf_call.pc = "idle"
    /\ \E workflow_id \in WorkflowIds :
          workflows' =
              [w \in DOMAIN workflows \cup {workflow_id} |->
                  IF w = workflow_id THEN WorkflowState(workflow_id, "cust_003", now)
                  ELSE workflows[w]]
    /\ UNCHANGED <<registered_agents, wf_call, wf_calls, decision_log, next_id>>

\* execute_workflow up to its loop: the lookup, and status = "running"
ExecuteWorkflow ==
    /\ wf_call.pc = "idle"
    /\ wf_calls < MaxExecutions
    /\ \E workflow_id \in WorkflowIds \cup UnknownIds, steps \in StepLists :
          IF workflow_id \notin DOMAIN workflows
          THEN /\ wf_call' = [pc |-> "idle", outcome |-> "raised",
                              workflow_id |-> workflow_id, steps |-> steps,
                              error |-> "Workflow " \o workflow_id \o " not found"]
               /\ UNCHANGED workflows
          ELSE /\ wf_call' = [pc |-> "running", outcome |-> "none",
                              workflow_id |-> workflow_id, steps |-> steps,
                              k |-> 1, found |-> workflows[workflow_id]]
               /\ workflows' = [workflows EXCEPT ![workflow_id].status = "running"]
    /\ wf_calls' = wf_calls + 1
    /\ UNCHANGED <<registered_agents, decision_log, next_id>>

\* a slip: a step that raised is recorded and the loop goes on
ExecuteStepContinuing ==
    /\ wf_call.pc = "running"
    /\ wf_call.k <= Len(wf_call.steps)
    /\ LET step == wf_call.steps[wf_call.k]
           w == wf_call.workflow_id
           out == execute_step(registered_agents, step, uuid4(next_id), now)
       IN  IF out.raised
           THEN /\ workflows' =
                      [workflows EXCEPT
                          ![w].steps = Append(@, failed_record(step, out.error)),
                          ![w].status = "failed"]
                /\ wf_call' = [wf_call EXCEPT !.k = @ + 1]
                /\ UNCHANGED <<decision_log, next_id>>
           ELSE /\ workflows' =
                      [workflows EXCEPT
                          ![w].steps = Append(@, completed_record(step, out.result)),
                          ![w].decisions = Append(@, to_dict(out.result))]
                /\ wf_call' = [wf_call EXCEPT !.k = @ + 1]
                /\ decision_log' =
                      [decision_log EXCEPT
                          ![registered_agents[step.agent_name]] = Append(@, out.result)]
                /\ next_id' = next_id + 1
    /\ UNCHANGED <<registered_agents, wf_calls>>

\* one turn of the loop: the step's record, and the decision when it has one;
\* a step that raises ends the call
ExecuteStep ==
    /\ wf_call.pc = "running"
    /\ wf_call.k <= Len(wf_call.steps)
    /\ LET step == wf_call.steps[wf_call.k]
           w == wf_call.workflow_id
           out == execute_step(registered_agents, step, uuid4(next_id), now)
       IN  IF out.raised
           THEN /\ workflows' =
                      [workflows EXCEPT
                          ![w].steps = Append(@, failed_record(step, out.error)),
                          ![w].status = "failed"]
                /\ wf_call' = [error |-> out.error]
                                 @@ [wf_call EXCEPT !.pc = "idle", !.outcome = "raised"]
                /\ UNCHANGED <<decision_log, next_id>>
           ELSE /\ workflows' =
                      [workflows EXCEPT
                          ![w].steps = Append(@, completed_record(step, out.result)),
                          ![w].decisions = Append(@, to_dict(out.result))]
                /\ wf_call' = [wf_call EXCEPT !.k = @ + 1]
                /\ decision_log' =
                      [decision_log EXCEPT
                          ![registered_agents[step.agent_name]] = Append(@, out.result)]
                /\ next_id' = next_id + 1
    /\ UNCHANGED <<registered_agents, wf_calls>>

\* after the loop: status = "completed", updated_at, and the return
CompleteWorkflow ==
    /\ wf_call.pc = "running"
    /\ wf_call.k > Len(wf_call.steps)
    /\ workflows' = [workflows EXCEPT ![wf_call.workflow_id].status = "completed",
                                      ![wf_call.workflow_id].updated_at = now]
    /\ wf_call' = [wf_call EXCEPT !.pc = "idle", !.outcome = "returned"]
    /\ UNCHANGED <<registered_agents, wf_calls, decision_log, next_id>>

(***************************************************************************)
(* Specifications: one per component, the other components left idle       *)
(***************************************************************************)
SpecGateInit == GateInit /\ ExecIdle /\ AuditIdle /\ ABIdle /\ WinnerIdle /\ AllocIdle /\ PolicyIdle /\ PipelineIdle /\ WorkflowIdle
SpecGateNext ==
    \/ RunAllChecks /\ UNCHANGED <<exec_vars, audit_vars, ab_vars, winner_vars, alloc_vars, policy_vars, pipeline_vars, workflow_vars>>
SpecGate == SpecGateInit /\ [][SpecGateNext]_vars

SpecExecInit == GateIdle /\ ExecIdle /\ AuditIdle /\ ABIdle /\ WinnerIdle /\ AllocIdle /\ PolicyIdle /\ PipelineIdle /\ WorkflowIdle
SpecExecNext ==
    \/ ExecuteCampaign /\ UNCHANGED <<gate_vars, audit_vars, ab_vars, winner_vars, alloc_vars, policy_vars, pipeline_vars, workflow_vars>>
SpecExec == SpecExecInit /\ [][SpecExecNext]_vars

SpecAuditInit == GateIdle /\ ExecIdle /\ AuditInit /\ ABIdle /\ WinnerIdle /\ AllocIdle /\ PolicyIdle /\ PipelineIdle /\ WorkflowIdle
SpecAuditNext ==
    \/ Tick /\ UNCHANGED <<gate_vars, exec_vars, ab_vars, winner_vars, alloc_vars, policy_vars, pipeline_vars, workflow_vars>>
    \/ LogDecision /\ UNCHANGED <<gate_vars, exec_vars, ab_vars, winner_vars, alloc_vars, policy_vars, pipeline_vars, workflow_vars>>
    \/ LogHumanOverride /\ UNCHANGED <<gate_vars, exec_vars, ab_vars, winner_vars, alloc_vars, policy_vars, pipeline_vars, workflow_vars>>
    \/ GetAuditHistory /\ UNCHANGED <<gate_vars, exec_vars, ab_vars, winner_vars, alloc_vars, policy_vars, pipeline_vars, workflow_vars>>
SpecAudit == SpecAuditInit /\ [][SpecAuditNext]_vars

\* several runs record events on one experiment at the same time
SpecABInit == GateIdle /\ ExecIdle /\ AuditIdle /\ ABIdle /\ WinnerIdle /\ AllocIdle /\ PolicyIdle /\ PipelineIdle /\ WorkflowIdle
SpecABNext ==
    \/ \E r \in Runs : RecordEventBegin(r) /\ UNCHANGED <<gate_vars, exec_vars, audit_vars, winner_vars, alloc_vars, policy_vars, pipeline_vars, workflow_vars>>
    \/ \E r \in Runs : RecordEventLoad(r) /\ UNCHANGED <<gate_vars, exec_vars, audit_vars, winner_vars, alloc_vars, policy_vars, pipeline_vars, workflow_vars>>
    \/ \E r \in Runs : RecordEventStore(r) /\ UNCHANGED <<gate_vars, exec_vars, audit_vars, winner_vars, alloc_vars, policy_vars, pipeline_vars, workflow_vars>>
SpecAB == SpecABInit /\ [][SpecABNext]_vars

\* one experiment, its events and queries one after another
SpecWinnerInit == GateIdle /\ ExecIdle /\ AuditIdle /\ ABIdle /\ WinnerInit /\ AllocIdle /\ PolicyIdle /\ PipelineIdle /\ WorkflowIdle
SpecWinnerNext ==
    \/ CreateABTest /\ UNCHANGED <<gate_vars, exec_vars, audit_vars, ab_vars, alloc_vars, policy_vars, pipeline_vars, workflow_vars>>
    \/ RecordEvent /\ UNCHANGED <<gate_vars, exec_vars, audit_vars, ab_vars, alloc_vars, policy_vars, pipeline_vars, workflow_vars>>
    \/ GetStatisticalWinner /\ UNCHANGED <<gate_vars, exec_vars, audit_vars, ab_vars, alloc_vars, policy_vars, pipeline_vars, workflow_vars>>
SpecWinner == SpecWinnerInit /\ [][SpecWinnerNext]_vars

\* _design_test_allocation called on ranked lists of every length
SpecAllocationInit == GateIdle /\ ExecIdle /\ AuditIdle /\ ABIdle /\ WinnerIdle /\ AllocIdle /\ PolicyIdle /\ PipelineIdle /\ WorkflowIdle
SpecAllocationNext ==
    \/ DesignTestAllocation /\ UNCHANGED <<gate_vars, exec_vars, audit_vars, ab_vars, winner_vars, policy_vars, pipeline_vars, workflow_vars>>
SpecAllocation == SpecAllocationInit /\ [][SpecAllocationNext]_vars

\* the agents called directly, one decide call after another
SpecPolicyInit == GateIdle /\ ExecIdle /\ AuditIdle /\ ABIdle /\ WinnerIdle /\ AllocIdle /\ PolicyIdle /\ PipelineIdle /\ WorkflowIdle
SpecPolicyNext ==
    \/ CartDecide /\ UNCHANGED <<gate_vars, exec_vars, audit_vars, ab_vars, winner_vars, alloc_vars, pipeline_vars, workflow_vars>>
    \/ CampaignDecide /\ UNCHANGED <<gate_vars, exec_vars, audit_vars, ab_vars, winner_vars, alloc_vars, pipeline_vars, workflow_vars>>
    \/ LifecycleDecide /\ UNCHANGED <<gate_vars, exec_vars, audit_vars, ab_vars, winner_vars, alloc_vars, pipeline_vars, workflow_vars>>
    \/ CreativeDecide /\ UNCHANGED <<gate_vars, exec_vars, audit_vars, ab_vars, winner_vars, alloc_vars, pipeline_vars, workflow_vars>>
SpecPolicy == SpecPolicyInit /\ [][SpecPolicyNext]_vars

\* process_customer called again and again; what it does not touch
pipeline_rest ==
    <<gate_vars, exec_in, exec_out, exec_calls, now, history_out, ab_vars, winner_vars, alloc_vars, decide_calls, workflow_vars>>

SpecPipelineInit == GateIdle /\ ExecIdle /\ AuditIdle /\ ABIdle /\ WinnerIdle /\ AllocIdle /\ PolicyIdle /\ PipelineIdle /\ WorkflowIdle
SpecPipelineNext ==
    \/ FetchCustomer /\ UNCHANGED pipeline_rest
    \/ EnrichCustomer /\ UNCHANGED pipeline_rest
    \/ GetAgentDecision /\ UNCHANGED pipeline_rest
    \/ ApplyGuardrails /\ UNCHANGED pipeline_rest
    \/ ExecuteDecision /\ UNCHANGED pipeline_rest
    \/ AuditDecision /\ UNCHANGED pipeline_rest
    \/ ReturnResult /\ UNCHANGED pipeline_rest
SpecPipeline == SpecPipelineInit /\ [][SpecPipelineNext]_vars

\* process_customer, and the holders of what it returned and stored
SpecAliasInit == GateIdle /\ ExecIdle /\ AuditIdle /\ ABIdle /\ WinnerIdle /\ AllocIdle /\ PolicyIdle /\ PipelineIdle /\ WorkflowIdle
SpecAliasNext ==
    \/ FetchHeld /\ UNCHANGED pipeline_rest
    \/ EnrichCustomer /\ UNCHANGED pipeline_rest
    \/ GetAgentDecision /\ UNCHANGED pipeline_rest
    \/ ApplyGuardrails /\ UNCHANGED pipeline_rest
    \/ ExecuteDecision /\ UNCHANGED pipeline_rest
    \/ AuditDecision /\ UNCHANGED pipeline_rest
    \/ ReturnResult /\ UNCHANGED pipeline_rest
    \/ SetResultParameter /\ UNCHANGED pipeline_rest
    \/ SetResultField /\ UNCHANGED pipeline_rest
    \/ SetDecisionField /\ UNCHANGED pipeline_rest
SpecAlias == SpecAliasInit /\ [][SpecAliasNext]_vars

\* the workflow engine: agents registered, workflows created and executed
workflow_rest ==
    <<gate_vars, exec_vars, audit_vars, ab_vars, winner_vars, alloc_vars, decide_calls,
      pipeline_vars>>

SpecWorkflowInit == GateIdle /\ ExecIdle /\ AuditIdle /\ ABIdle /\ WinnerIdle /\ AllocIdle /\ PolicyIdle /\ PipelineIdle /\ WorkflowIdle
SpecWorkflowNext ==
    \/ RegisterAgent /\ UNCHANGED workflow_rest
    \/ CreateWorkflow /\ UNCHANGED workflow_rest
    \/ ExecuteWorkflow /\ UNCHANGED workflow_rest
    \/ ExecuteStep /\ UNCHANGED workflow_rest
    \/ CompleteWorkflow /\ UNCHANGED workflow_rest
SpecWorkflow == SpecWorkflowInit /\ [][SpecWorkflowNext]_vars

CriticalFailure(results) ==
    \E n \in DOMAIN results : ~results[n].passed /\ results[n].severity = "critical"

(***************************************************************************)
(* C1: run_all_checks returns all_passed = false exactly when one of the   *)
(* checks it ran has passed = false with severity "critical"; a check that *)
(* failed with severity "error" or "warning" never makes all_passed false. *)
(***************************************************************************)
C1_GateIffCriticalFailure ==
    gate_out.done =>
        /\ DOMAIN gate_out.results = CheckNames
        /\ (~gate_out.all_passed) <=> CriticalFailure(gate_out.results)

\* the gate passes although a check failed with severity "error"
C1_Witness ==
    /\ gate_out.done
    /\ gate_out.all_passed
    /\ \E n \in CheckNames :
          ~gate_out.results[n].passed /\ gate_out.results[n].severity = "error"

(***************************************************************************)
(* The last execute_campaign call, read back from its arguments            *)
(***************************************************************************)
CallChannels == Get(exec_in.campaign_data, "channels", <<"email">>)

CallSend(ch) ==
    send_channel(ch, exec_in.customer_id, exec_in.customer_data, exec_in.campaign_data)

FailingChannel(ch) == ch \in RecognizedChannels /\ CallSend(ch).raised

HealthyChannel(ch) ==
    ch \in RecognizedChannels /\ ~CallSend(ch).raised /\ CallSend(ch).result.status = "sent"

OneFailingOneHealthy ==
    \E i, j \in 1..Len(CallChannels) :
        FailingChannel(CallChannels[i]) /\ HealthyChannel(CallChannels[j])

RequestedRecognized == SelectSeqIn(CallChannels, RecognizedChannels)

ResultChannels(results) == [k \in 1..Len(results) |-> results[k].channel]

(***************************************************************************)
(* C2: execute_campaign called with a channel list in which one channel's  *)
(* send fails and another channel is healthy does not raise: it returns    *)
(* one result per channel, the failing channel's result has status         *)
(* "failed", the healthy channel's result has status "sent", and channels  *)
(* listed after the failing one are still attempted.                       *)
(***************************************************************************)
C2_FailingChannelIsIsolated ==
    (exec_out.state # "idle" /\ OneFailingOneHealthy) =>
        /\ exec_out.state = "returned"
        /\ Len(exec_out.results) = Len(RequestedRecognized)
        /\ \A k \in 1..Len(RequestedRecognized) :
              /\ exec_out.results[k].channel = RequestedRecognized[k]
              /\ FailingChannel(RequestedRecognized[k])
                    => exec_out.results[k].status = "failed"
              /\ HealthyChannel(RequestedRecognized[k])
                    => exec_out.results[k].status = "sent"

(***************************************************************************)
(* C3: for every channel list, execute_campaign returns exactly one result *)
(* for each requested channel whose name is one of email, sms, whatsapp,   *)
(* web, push, in the order the channels were requested; an unrecognized    *)
(* channel name produces no result and no error, and does not stop the     *)
(* channels after it.                                                      *)
(***************************************************************************)
C3_OneResultPerRecognizedChannel ==
    exec_out.state # "idle" =>
        /\ exec_out.state = "returned"
        /\ ResultChannels(exec_out.results) = RequestedRecognized

\* what the loop does keep: a call that returns has one result per recognized
\* channel, in request order, and unrecognized names are passed over
ReturnedCallKeepsRequestOrder ==
    exec_out.state = "returned" =>
        ResultChannels(exec_out.results) = RequestedRecognized

(***************************************************************************)
(* The ledger as a query saw it, newest-appended entry first               *)
(***************************************************************************)
Reverse(s) == [k \in 1..Len(s) |-> s[Len(s) + 1 - k]]

SeenNewestFirst == Reverse(SubSeq(audit_log, 1, history_out.seen))

(***************************************************************************)
(* C4: the audit ledger is append-only: after any sequence of N            *)
(* log_decision / log_human_override calls, get_audit_history(limit=N)     *)
(* returns exactly those N entries ordered newest-appended first, and no   *)
(* AuditLogger operation reduces the ledger or removes or reorders a       *)
(* stored entry.                                                           *)
(***************************************************************************)
C4_HistoryIsLedgerNewestFirst ==
    (history_out.called /\ history_out.customer_id = NoneValue
        /\ history_out.limit = history_out.seen)
      => history_out.entries = SeenNewestFirst

\* the part of C4 the code keeps: the stored sequence only ever grows at its end
AuditLogIsAppendOnly ==
    [][/\ Len(audit_log') >= Len(audit_log)
       /\ SubSeq(audit_log', 1, Len(audit_log)) = audit_log]_vars

\* with strictly increasing timestamps inside one second and no reading at
\* microsecond zero, the query does return the ledger newest first
HistoryNewestFirstWhenKeysIncrease ==
    (history_out.called /\ history_out.customer_id = NoneValue
        /\ history_out.limit = history_out.seen
        /\ \A i, j \in 1..history_out.seen :
              i < j => iso_less(audit_log[i].timestamp, audit_log[j].timestamp))
      => history_out.entries = SeenNewestFirst

(***************************************************************************)
(* How many of the completed events went to a counter of a variant         *)
(***************************************************************************)
EventsOn(variant_id, event_type) ==
    Cardinality({r \in Runs : /\ run_pc[r] = "done"
                              /\ run_ev[r].variant_id = variant_id
                              /\ run_ev[r].event_type = event_type})

AllRunsDone == \A r \in Runs : run_pc[r] = "done"

(***************************************************************************)
(* C5: when several runs call record_event concurrently on the same        *)
(* variant, no update is lost: after K concurrent impression (or           *)
(* conversion) events of value 1 have all completed, the variant's         *)
(* counter has grown by exactly K, under every interleaving.               *)
(***************************************************************************)
C5_NoLostUpdate ==
    AllRunsDone =>
        \A v \in VariantIds :
            /\ ab_test.variants[v].impressions = EventsOn(v, "impression")
            /\ ab_test.variants[v].conversions = EventsOn(v, "conversion")

(***************************************************************************)
(* The direct decide calls, read back from their arguments                 *)
(***************************************************************************)
SkipActions == {"skip", "skip_campaign", "skip_cart_recovery", "skip_winback", "skip_test"}

CartCall(c) ==
    /\ c.agent = "winback_agent"
    /\ Get(c.input.context, "action_type", "cart_abandonment") = "cart_abandonment"

WinbackCall(c) ==
    /\ c.agent = "winback_agent"
    /\ Get(c.input.context, "action_type", "cart_abandonment") = "win_back"

\* the eligibility rule of the policy that served the call is not met
Ineligible(c) ==
    \/ CartCall(c) /\ Get(c.input.customer_data, "cart_value", 0) < 20
    \/ WinbackCall(c) /\ Get(c.input.customer_data, "days_since_last_activity", 0) < 90
    \/ /\ c.agent = "creative_agent"
       /\ \/ Get(c.input.context, "expected_volume", 0) < 1000
          \/ Get(c.input.context, "days_since_last_test", 999) < 7
    \/ /\ c.agent = "campaign_agent"
       /\ \/ ~evaluate_trigger(Get(c.input.context, "trigger", "none"),
                               c.input.customer_data)
          \/ Get(c.input.customer_data, "lifecycle_stage", "active")
                \notin DOMAIN CAMPAIGN_TEMPLATES

Calls == { decide_calls[k] : k \in 1..Len(decide_calls) }

(***************************************************************************)
(* C9: a decide call whose policy's eligibility rule is not met (cart      *)
(* value below 20, fewer than 90 inactive days, expected volume below 1000 *)
(* or a test fewer than 7 days ago, campaign trigger not met or no         *)
(* template for the stage) does not raise: it returns a skip decision with *)
(* confidence at least 0.9 and a non-empty reason.                         *)
(***************************************************************************)
C9_IneligibleGivesConfidentSkip ==
    \A c \in Calls :
        Ineligible(c) =>
            /\ ~c.raised
            /\ c.decision.action \in SkipActions
            /\ c.decision.confidence >= 900
            /\ c.decision.reasoning.text # ""

\* the campaign policy skipped for want of a template and the creative policy
\* skipped for a test six days ago
C9_Witness ==
    /\ \E c \in Calls :
          /\ c.agent = "campaign_agent"
          /\ evaluate_trigger(Get(c.input.context, "trigger", "none"), c.input.customer_data)
          /\ Ineligible(c)
          /\ c.decision.action = "skip_campaign"
    /\ \E c \in Calls :
          /\ c.agent = "creative_agent"
          /\ Get(c.input.context, "expected_volume", 0) >= 1000
          /\ Ineligible(c)
          /\ c.decision.action = "skip_test"

\* a cart call that was served a discount
DiscountedCart(c) ==
    /\ CartCall(c)
    /\ ~c.raised
    /\ c.decision.action = "send_cart_recovery_email"

VipFlag(c) == Get(c.input.customer_data, "vip_status", FALSE)

Blocked == "guardrail_pass" \in DOMAIN run /\ ~run.guardrail_pass

Steps == { trace[k] : k \in 1..Len(trace) }

ReturnedSuccess == pc = "idle" /\ result.status = "success"

(***************************************************************************)
(* C6: a process_customer run whose gate returned false does not raise and *)
(* calls no sender, so execution_history stays as the run found it; the    *)
(* result it returns has guardrails.passed false, a per-check map giving   *)
(* each check's passed flag and severity, and an empty execution part.     *)
(***************************************************************************)
C6_BlockedRunReturnsWithoutDispatch ==
    Blocked =>
        /\ pc # "raised"
        /\ "dispatch" \notin Steps
        /\ execution_history = entry.execution_history
        /\ pc = "idle" =>
              /\ result.status = "success"
              /\ ~result.guardrails.passed
              /\ DOMAIN result.guardrails.checks = CheckNames
              /\ \A n \in CheckNames :
                    result.guardrails.checks[n] =
                        [passed |-> run.guardrail_results[n].passed,
                         severity |-> run.guardrail_results[n].severity]
              /\ \E n \in CheckNames :
                    /\ ~result.guardrails.checks[n].passed
                    /\ result.guardrails.checks[n].severity = "critical"
              /\ result.execution.none

\* after a run that dispatched, a cart recovery email is blocked for want of consent
C6_Witness ==
    /\ ReturnedSuccess
    /\ Blocked
    /\ result.decision.action = "send_cart_recovery_email"
    /\ entry.execution_history # <<>>

StepOrder == <<"fetch", "enrich", "decide", "guardrails", "dispatch", "audit", "return">>

StepPosition(step) == CHOOSE k \in 1..Len(StepOrder) : StepOrder[k] = step

(***************************************************************************)
(* C7: a process_customer run for a customer that exists takes its steps   *)
(* in the order decision, guardrail evaluation, dispatch, audit append,    *)
(* dispatching only when the gate approved, and does not raise; when it    *)
(* returns it has appended exactly one audit entry, which carries the      *)
(* decision, the per-check pass/fail map and the human-review flag, also   *)
(* when the decision was blocked or not dispatched.                        *)
(***************************************************************************)
C7_StepsInOrderOneAuditEntry ==
    /\ \A i, j \in 1..Len(trace) :
          i < j => StepPosition(trace[i]) < StepPosition(trace[j])
    /\ "dispatch" \in Steps => run.guardrail_pass
    /\ "raw_customer" \in DOMAIN run => pc # "raised"
    /\ "audit" \notin Steps => audit_log = entry.audit_log
    /\ ReturnedSuccess =>
          /\ {"decide", "guardrails", "audit"} \subseteq Steps
          /\ Len(audit_log) = Len(entry.audit_log) + 1
          /\ SubSeq(audit_log, 1, Len(entry.audit_log)) = entry.audit_log
          /\ LET logged == audit_log[Len(audit_log)]
             IN  /\ logged.decision_details = result.decision
                 /\ logged.decision_id = result.decision.decision_id
                 /\ logged.customer_id = result.customer_id
                 /\ DOMAIN logged.guardrail_checks = CheckNames
                 /\ \A n \in CheckNames :
                       logged.guardrail_checks[n] = result.guardrails.checks[n].passed
                 /\ logged.human_review_required = result.decision.requires_human_review

\* the second run was blocked by the gate and is the second entry of the ledger
C7_Witness ==
    /\ ReturnedSuccess
    /\ ~result.guardrails.passed
    /\ "dispatch" \notin Steps
    /\ Len(entry.audit_log) = 1
    /\ Len(audit_log) = 2
    /\ audit_log[2].decision_id = result.decision.decision_id

(***************************************************************************)
(* C8: a process_customer call with a customer id the data source does not *)
(* hold returns status "failed" with an error and changes nothing else: no *)
(* agent creates or logs a decision, no guardrail is evaluated, nothing is *)
(* dispatched and the audit ledger stays as it was.                        *)
(***************************************************************************)
C8_UnknownCustomerFailsAndChangesNothing ==
    (runs > 0 /\ run.customer_id \notin KnownIds) =>
        /\ pc = "idle"
        /\ result.status = "failed"
        /\ result.error # ""
        /\ trace = <<"fetch">>
        /\ "decision" \notin DOMAIN run
        /\ "guardrail_results" \notin DOMAIN run
        /\ decision_log = entry.decision_log
        /\ execution_history = entry.execution_history
        /\ audit_log = entry.audit_log

\* an unknown id after a run that decided, dispatched and logged
C8_Witness ==
    /\ runs = 2
    /\ run.customer_id = "cust_999"
    /\ result.status = "failed"
    /\ Len(audit_log) = 1
    /\ execution_history # <<>>
    /\ \E a \in AgentKeys : decision_log[a] # <<>>

LifecycleCall(c) == c.agent = "lifecycle_agent"

\* the call returned a decision that is not a skip
ActsOn(c) == ~c.raised /\ c.decision.action \notin SkipActions

(***************************************************************************)
(* C11: a decision that is not a skip requires human review whenever its   *)
(* subject is above the policy's threshold: a cart recovery exactly when   *)
(* the cart value is above 500, a win-back when the customer value is      *)
(* above 2000, a lifecycle decision when the customer value is above 5000  *)
(* or the churn risk it reports is above 0.7.                              *)
(***************************************************************************)
C11_ReviewAboveThresholds ==
    \A c \in Calls :
        ActsOn(c) =>
            /\ CartCall(c) =>
                  (c.decision.requires_human_review
                     <=> c.input.customer_data.cart_value > 500)
            /\ (WinbackCall(c) /\ c.input.customer_data.customer_value > 2000)
                  => c.decision.requires_human_review
            /\ ( /\ LifecycleCall(c)
                 /\ \/ Get(c.input.customer_data, "customer_value", 0) > 5000
                    \/ c.decision.parameters.churn_risk > 700 )
                  => c.decision.requires_human_review

\* a lifecycle decision reviewed for its churn risk alone, and a cart of 500
\* that is not reviewed
C11_Witness ==
    /\ \E c \in Calls :
          /\ LifecycleCall(c) /\ ActsOn(c)
          /\ Get(c.input.customer_data, "customer_value", 0) <= 5000
          /\ c.decision.parameters.churn_risk > 700
          /\ c.decision.requires_human_review
    /\ \E c \in Calls :
          /\ CartCall(c) /\ ActsOn(c)
          /\ c.input.customer_data.cart_value = 500
          /\ ~c.decision.requires_human_review

(***************************************************************************)
(* The queries made on the experiment, read back from its counters         *)
(***************************************************************************)
Queried == last_call.op = "get_statistical_winner"

ControlOf(test) == test.variants[test.order[1]]

\* the variant at place i differs from control significantly, in exact
\* arithmetic, and converts better
Qualifies(test, i) ==
    LET chi_square == calculate_chi_square(ControlOf(test), test.variants[test.order[i]])
    IN  /\ ~chi_square.raised
        /\ chi_square_to_p_value(chi_square.result) < 1000 - test.confidence_level
        /\ rate_greater(conversion_rate(test.variants[test.order[i]]),
                        conversion_rate(ControlOf(test)))

Qualifying(test) == { i \in 2..Len(test.order) : Qualifies(test, i) }

FirstQualifying(test) ==
    IF Qualifying(test) = {} THEN NoneValue
    ELSE test.order[CHOOSE i \in Qualifying(test) : \A j \in Qualifying(test) : i <= j]

\* control with 1000 impressions and 50 conversions, a variant with 1000 and
\* 90, at confidence 0.95: the query returns the variant
ExampleReturnsVariant ==
    ( /\ Queried
      /\ experiment.order = <<"control", "variant_a">>
      /\ experiment.confidence_level = 950
      /\ experiment.variants["control"].impressions = 1000
      /\ experiment.variants["control"].conversions = 50
      /\ experiment.variants["variant_a"].impressions = 1000
      /\ experiment.variants["variant_a"].conversions = 90 )
    => (~last_call.raised /\ last_call.result = "variant_a")

(***************************************************************************)
(* C12: get_statistical_winner returns the first variant after control, in *)
(* insertion order, whose pooled chi-square statistic against control maps *)
(* through the stepwise table to a p-value strictly below                  *)
(* 1 - confidence_level and whose conversion rate is strictly greater than *)
(* control's; it returns None when there is no such variant.               *)
(***************************************************************************)
C12_WinnerIsFirstSignificantBetter ==
    Queried =>
        /\ ~last_call.raised
        /\ last_call.result = FirstQualifying(experiment)

(***************************************************************************)
(* C13: get_statistical_winner never returns a variant when that variant   *)
(* or the control has zero impressions, at any confidence level and        *)
(* whatever the conversion counters hold.                                  *)
(***************************************************************************)
C13_NoWinnerWithoutImpressions ==
    (Queried /\ ~last_call.raised /\ last_call.result # NoneValue) =>
        /\ ControlOf(experiment).impressions > 0
        /\ experiment.variants[last_call.result].impressions > 0

(***************************************************************************)
(* C16: over create_ab_test, record_event and get_statistical_winner, an   *)
(* experiment's status changes only from running to completed or from      *)
(* completed to archived, and its winner changes only while the status is  *)
(* running and only from None.                                             *)
(***************************************************************************)
C16_StatusAndWinnerMoveForward ==
    [][ /\ \/ experiment'.status = experiment.status
           \/ <<experiment.status, experiment'.status>>
                 \in {<<"running", "completed">>, <<"completed", "archived">>}
        /\ experiment'.winner # experiment.winner
             => (experiment.status = "running" /\ experiment.winner = NoneValue)
      ]_vars

\* a query has named a variant on an experiment with events recorded, and the
\* experiment is still running with no winner stored
C16_Witness ==
    /\ Queried /\ ~last_call.raised /\ last_call.result # NoneValue
    /\ experiment.status = "running"
    /\ experiment.winner = NoneValue

(***************************************************************************)
(* The allocation a call produced, read back                               *)
(***************************************************************************)
RECURSIVE SumOver(_, _)
SumOver(f, keys) ==
    IF keys = {} THEN 0
    ELSE LET k == CHOOSE x \in keys : TRUE IN f[k] + SumOver(f, keys \ {k})

\* traffic_percentage of every variant, in tenths of a percent
shares(allocation) ==
    [name \in DOMAIN allocation.variants |-> allocation.variants[name].traffic_percentage]

(***************************************************************************)
(* C14: for 2 or more scored variants, the traffic_percentage values       *)
(* _design_test_allocation assigns add up to 100 percent.                  *)
(***************************************************************************)
C14_SharesSumToOne ==
    allocation_call.called =>
        SumOver(shares(allocation_call.allocation),
                DOMAIN allocation_call.allocation.variants) = 1000

(***************************************************************************)
(* C15: in every allocation, 'Control (Original)' has the fixed 30 percent *)
(* share, whatever the number of variants and their ranking, and all the   *)
(* other variants have one and the same share.                             *)
(***************************************************************************)
C15_ControlKeepsFixedShare ==
    allocation_call.called =>
        LET share == shares(allocation_call.allocation)
            others == DOMAIN share \ {"Control (Original)"}
        IN  /\ share["Control (Original)"] = 300
            /\ \A a, b \in others : share[a] = share[b]

\* the policy each label selects under the first-match rule: 'cart', then
\* 'creative' or 'test', then 'lifecycle', otherwise the campaign policy
ExpectedPolicy ==
    [cart_abandoned |-> "winback_agent", Cart_Lifecycle |-> "winback_agent",
     creative_refresh |-> "creative_agent", ab_test |-> "creative_agent",
     lifecycle_test |-> "creative_agent", lifecycle_change |-> "lifecycle_agent",
     purchase_milestone |-> "campaign_agent", win_back |-> "campaign_agent",
     none |-> "campaign_agent"]

\* the run has passed _get_agent_decision
Routed == pc \in {"decided", "checked", "executed", "logged"}

(***************************************************************************)
(* C17: every trigger label is served by exactly one policy, the first     *)
(* whose keyword the lower-cased label contains in the order 'cart',       *)
(* 'creative' or 'test', 'lifecycle', and the campaign policy when none    *)
(* matches; the decision is the one that policy appended to its log.       *)
(***************************************************************************)
C17_RoutingFirstMatch ==
    Routed =>
        /\ run.agent = ExpectedPolicy[run.trigger]
        /\ Len(decision_log[run.agent]) = Len(entry.decision_log[run.agent]) + 1
        /\ decision_log[run.agent][Len(decision_log[run.agent])] = run.decision
        /\ \A a \in AgentKeys \ {run.agent} : decision_log[a] = entry.decision_log[a]

\* a label holding two keywords, in capitals, went to the cart policy
C17_Witness ==
    /\ Routed
    /\ run.trigger = "Cart_Lifecycle"
    /\ run.agent = "winback_agent"
    /\ run.decision.agent_name = "AbandonedCartWinBackAgent"

\* the fields of a decision other than decision_id and timestamp
DecisionBody(decision) ==
    [agent_name |-> decision.agent_name, customer_id |-> decision.customer_id,
     action |-> decision.action, parameters |-> decision.parameters,
     confidence |-> decision.confidence, guardrail_checks |-> decision.guardrail_checks,
     requires_human_review |-> decision.requires_human_review,
     reasoning |-> decision.reasoning]

(***************************************************************************)
(* C18: two decide calls of one policy with the same customer record and   *)
(* the same trigger context return decisions that agree on every field     *)
(* except decision_id and timestamp, the scores, ranking and allocation of *)
(* generated variants included.                                            *)
(***************************************************************************)
C18_DecideIsDeterministic ==
    \A i, j \in DOMAIN decide_calls :
        ( /\ decide_calls[i].agent = decide_calls[j].agent
          /\ decide_calls[i].input = decide_calls[j].input
          /\ ~decide_calls[i].raised /\ ~decide_calls[j].raised )
        => DecisionBody(decide_calls[i].decision) = DecisionBody(decide_calls[j].decision)

(***************************************************************************)
(* C19: a ledger entry is a copy: once log_decision has stored it, no      *)
(* write to the decision object, to its parameters mapping or to the       *)
(* result process_customer returned changes any field of the stored entry. *)
(***************************************************************************)
C19_LedgerEntryIsACopy ==
    [][\A i \in 1..Len(audit_log) :
          /\ i <= Len(audit_log')
          /\ audit_log'[i] = audit_log[i]]_vars

\* the run that returned was for an abandoned cart of 250 of a customer who is
\* not VIP and has given consent
CartOf250Returned ==
    /\ ReturnedSuccess
    /\ result.trigger = "cart_abandoned"
    /\ run.raw_customer.cart_value = 250
    /\ ~run.raw_customer.vip
    /\ run.raw_customer.gdpr_consent

(***************************************************************************)
(* C20: process_customer with trigger 'cart_abandoned' for a customer who  *)
(* is not VIP, has a cart of 250 and has given consent returns the action  *)
(* send_cart_recovery_email with discount_percentage 20 and                *)
(* requires_human_review false, a gate that passed, and exactly one        *)
(* dispatch result, on channel email with status 'sent'.                   *)
(***************************************************************************)
C20_CartOf250IsSentByEmail ==
    CartOf250Returned =>
        /\ result.decision.action = "send_cart_recovery_email"
        /\ result.decision.parameters.discount_percentage = 20
        /\ ~result.decision.requires_human_review
        /\ result.guardrails.passed
        /\ ~result.execution.none
        /\ Len(result.execution.results) = 1
        /\ result.execution.results[1].channel = "email"
        /\ result.execution.results[1].status = "sent"

C20_Witness ==
    /\ CartOf250Returned
    /\ result.customer_id = "cust_003"
    /\ ~result.execution.none
    /\ execution_history # <<>>

(***************************************************************************)
(* The gate's arguments, read directly                                     *)
(***************************************************************************)
\* the record names a region and it is not the regulated one
OutsideRegulatedRegion == "region" \in DOMAIN customer_data /\ customer_data.region # "EU"

ConsentFlagSet == "gdpr_consent" \in DOMAIN customer_data /\ customer_data.gdpr_consent

\* the disclosure elements the content lacks or holds as an empty string
MissingDisclosures ==
    { e \in {"from_address", "unsubscribe_link", "physical_address"} :
         e \notin DOMAIN email_data \/ email_data[e] = "" }

(***************************************************************************)
(* C21: the consent check passes for every region other than EU; in EU,    *)
(* and for a record that names no region, it passes exactly when the       *)
(* customer's consent flag is set, and when it fails there its severity is *)
(* 'critical'.                                                             *)
(***************************************************************************)
C21_ConsentByRegion ==
    gate_out.done =>
        LET check == gate_out.results.gdpr_consent
        IN  IF OutsideRegulatedRegion THEN check.passed
            ELSE /\ check.passed <=> ConsentFlagSet
                 /\ ~check.passed => check.severity = "critical"

\* a record with no region and no consent flag fails the check critically
C21_Witness ==
    /\ gate_out.done
    /\ "region" \notin DOMAIN customer_data
    /\ "gdpr_consent" \notin DOMAIN customer_data
    /\ ~gate_out.results.gdpr_consent.passed
    /\ gate_out.results.gdpr_consent.severity = "critical"

(***************************************************************************)
(* C22: the required-disclosure check passes exactly when from_address,    *)
(* unsubscribe_link and physical_address are all present and non-empty;    *)
(* when one is missing it fails with severity 'critical' and its details   *)
(* list the missing elements, each once and no other.                      *)
(***************************************************************************)
C22_DisclosureCheck ==
    gate_out.done =>
        LET check == gate_out.results.can_spam
            missing == check.details.missing_elements
        IN  /\ check.passed <=> MissingDisclosures = {}
            /\ ~check.passed => check.severity = "critical"
            /\ { missing[i] : i \in DOMAIN missing } = MissingDisclosures
            /\ Len(missing) = Cardinality(MissingDisclosures)

\* the content has a sender, an empty unsubscribe link and no physical address
C22_Witness ==
    /\ gate_out.done
    /\ MissingDisclosures = {"unsubscribe_link", "physical_address"}
    /\ "unsubscribe_link" \in DOMAIN email_data
    /\ "physical_address" \notin DOMAIN email_data
    /\ ~gate_out.results.can_spam.passed

ComplianceChecks == {"gdpr_consent", "can_spam"}

(***************************************************************************)
(* C27: in the results of run_all_checks only the consent check and the    *)
(* required-disclosure check carry severity 'critical', a check that       *)
(* passed carries severity 'warning', and the overall outcome is true      *)
(* exactly when the consent check and the disclosure check both passed,    *)
(* whatever the other five checks found.                                   *)
(***************************************************************************)
C27_OnlyComplianceChecksBlock ==
    gate_out.done =>
        /\ \A n \in CheckNames :
              /\ gate_out.results[n].severity = "critical" => n \in ComplianceChecks
              /\ gate_out.results[n].passed => gate_out.results[n].severity = "warning"
        /\ gate_out.all_passed <=>
              (gate_out.results.gdpr_consent.passed /\ gate_out.results.can_spam.passed)

\* frequency cap, spam score and engagement all failed and the gate passed
C27_Witness ==
    /\ gate_out.done
    /\ gate_out.all_passed
    /\ ~gate_out.results.frequency_cap.passed
    /\ ~gate_out.results.spam_score.passed
    /\ ~gate_out.results.engagement_score.passed

(***************************************************************************)
(* C23: over record_event calls with any event type and any value, no      *)
(* variant's impressions, conversions or revenue ever decreases.           *)
(***************************************************************************)
C23_CountersNeverDecrease ==
    [][last_call'.op = "record_event" =>
          \A v \in DOMAIN experiment.variants :
              /\ experiment'.variants[v].impressions >= experiment.variants[v].impressions
              /\ experiment'.variants[v].conversions >= experiment.variants[v].conversions
              /\ experiment'.variants[v].revenue >= experiment.variants[v].revenue]_vars

\* a win-back call for a customer inactive for 90 days or more
EligibleWinback(c) ==
    /\ WinbackCall(c)
    /\ ~c.raised
    /\ Get(c.input.customer_data, "days_since_last_activity", 0) >= 90

(***************************************************************************)
(* C24: of two eligible win-back customers, the one with the greater       *)
(* customer value is offered a discount that is not greater.               *)
(***************************************************************************)
C24_WinbackDiscountNonIncreasing ==
    \A c1, c2 \in Calls :
        ( /\ EligibleWinback(c1) /\ EligibleWinback(c2)
          /\ Get(c1.input.customer_data, "customer_value", 0)
                <= Get(c2.input.customer_data, "customer_value", 0) )
        => c2.decision.parameters.discount_percentage
              <= c1.decision.parameters.discount_percentage

\* the ledger as the last query found it
LedgerSeen == SubSeq(audit_log, 1, history_out.seen)

IsOverride(e) == Get(e, "type", NoneValue) = "human_override"

\* entry e is a decision logged for customer c, or an override of a decision
\* that the ledger holds as logged for c
Concerns(e, c) ==
    IF IsOverride(e)
    THEN \E i \in DOMAIN LedgerSeen :
            /\ ~IsOverride(LedgerSeen[i])
            /\ LedgerSeen[i].customer_id = c
            /\ LedgerSeen[i].decision_id = e.decision_id
    ELSE e.customer_id = c

(***************************************************************************)
(* C25: get_audit_history(customer_id=c), with the default limit, returns  *)
(* exactly the stored entries that concern c: every decision entry logged  *)
(* for c, every human-override entry recorded for one of c's decisions,    *)
(* and no entry of another customer.                                       *)
(***************************************************************************)
C25_HistoryByCustomer ==
    (history_out.called /\ history_out.customer_id # NoneValue /\ history_out.limit = 100)
    => LET concerning == { i \in DOMAIN LedgerSeen :
                              Concerns(LedgerSeen[i], history_out.customer_id) }
       IN  /\ Len(history_out.entries) = Cardinality(concerning)
           /\ { history_out.entries[k] : k \in DOMAIN history_out.entries }
                 = { LedgerSeen[i] : i \in concerning }

\* the decision of this run is one of the skip actions
SkippedRun == "decision" \in DOMAIN run /\ run.decision.action \in SkipActions

(***************************************************************************)
(* C26: a process_customer run whose decision is a skip action (skip,      *)
(* skip_campaign, skip_cart_recovery, skip_winback or skip_test) calls no  *)
(* channel sender, so execution_history stays as the run found it, and the *)
(* execution part of the result it returns is empty, also when the gate    *)
(* passes.                                                                 *)
(***************************************************************************)
C26_SkipIsNeverDispatched ==
    SkippedRun =>
        /\ "dispatch" \notin Steps
        /\ execution_history = entry.execution_history
        /\ ReturnedSuccess => result.execution.none

(***************************************************************************)
(* C30: through process_customer the cart/win-back policy only runs its    *)
(* cart-abandonment branch: a trigger routed to it yields                  *)
(* send_cart_recovery_email or skip_cart_recovery, no trigger yields       *)
(* execute_winback_campaign or skip_winback, and the trigger 'win_back' is *)
(* decided by the campaign policy.                                         *)
(***************************************************************************)
C30_OnlyCartBranchThroughPipeline ==
    "decision" \in DOMAIN run =>
        /\ run.agent = "winback_agent" =>
              /\ run.decision.agent_name = "AbandonedCartWinBackAgent"
              /\ run.decision.action \in {"send_cart_recovery_email", "skip_cart_recovery"}
        /\ run.decision.action \notin {"execute_winback_campaign", "skip_winback"}
        /\ run.trigger = "win_back" =>
              /\ run.agent = "campaign_agent"
              /\ run.decision.agent_name = "CampaignAgent"

\* a 'win_back' run has returned the campaign policy's decision, after a run
\* in which the cart/win-back policy sent a cart recovery email
C30_Witness ==
    /\ ReturnedSuccess
    /\ result.trigger = "win_back"
    /\ result.decision.agent_name = "CampaignAgent"
    /\ result.decision.action = "execute_campaign"
    /\ \E i \in DOMAIN entry.audit_log :
          /\ entry.audit_log[i].agent = "AbandonedCartWinBackAgent"
          /\ entry.audit_log[i].action = "send_cart_recovery_email"

(***************************************************************************)
(* The execute_workflow call in progress, or the last one                  *)
(***************************************************************************)
\* this step is the lookup of a workflow the engine holds
CallBegins == wf_call.pc = "idle" /\ wf_call'.pc = "running"

\* this step is the return of a call whose steps all succeeded
CallReturns == wf_call.pc = "running" /\ wf_call'.pc = "idle" /\ wf_call'.outcome = "returned"

\* the call is at a step whose agent is not registered or whose decide raises
StepFails ==
    /\ wf_call.pc = "running"
    /\ wf_call.k <= Len(wf_call.steps)
    /\ LET step == wf_call.steps[wf_call.k]
       IN  \/ step.agent_name \notin DOMAIN registered_agents
           \/ decide(registered_agents[step.agent_name], step.input_data, <<>>).raised

\* this step is a call for a workflow id the engine does not hold
CallRaisesAtLookup ==
    wf_call.pc = "idle" /\ wf_calls' = wf_calls + 1 /\ wf_call'.pc = "idle"

\* what the call has appended to the steps and the decisions of workflow state ws
RecordsSince(ws) ==
    SubSeq(ws.steps, Len(wf_call.found.steps) + 1, Len(ws.steps))

DecisionsSince(ws) ==
    SubSeq(ws.decisions, Len(wf_call.found.decisions) + 1, Len(ws.decisions))

\* record r is the 'completed' record of step s
CompletedFor(r, s) ==
    /\ r.status = "completed"
    /\ r.step_id = s.step_id /\ r.name = s.name /\ r.agent = s.agent_name

\* a call that returns took the workflow from running to completed, and has
\* appended one 'completed' record and one decision per step, in order
CompletionRecordsEveryStep ==
    /\ CallBegins => workflows'[wf_call'.workflow_id].status = "running"
    /\ CallReturns =>
          LET before == workflows[wf_call.workflow_id]
              after == workflows'[wf_call.workflow_id]
              records == RecordsSince(after)
              decisions == DecisionsSince(after)
          IN  /\ before.status = "running"
              /\ after.status = "completed"
              /\ SubSeq(after.steps, 1, Len(wf_call.found.steps)) = wf_call.found.steps
              /\ Len(records) = Len(wf_call.steps)
              /\ Len(decisions) = Len(wf_call.steps)
              /\ \A i \in 1..Len(wf_call.steps) :
                    /\ CompletedFor(records[i], wf_call.steps[i])
                    /\ decisions[i] = to_dict(records[i].result)

\* no step takes a workflow from completed or failed to running
FinishedStaysFinished ==
    \A w \in DOMAIN workflows \cap DOMAIN workflows' :
        workflows[w].status \in {"completed", "failed"} => workflows'[w].status # "running"

C29_FailedStepEndsTheWorkflow ==
    [][ /\ StepFails =>
              LET k == wf_call.k
                  step == wf_call.steps[k]
                  after == workflows'[wf_call.workflow_id]
                  records == RecordsSince(after)
                  decisions == DecisionsSince(after)
              IN  /\ wf_call'.pc = "idle"
                  /\ wf_call'.outcome = "raised"
                  /\ after.status = "failed"
                  /\ SubSeq(after.steps, 1, Len(wf_call.found.steps)) = wf_call.found.steps
                  /\ Len(records) = k
                  /\ \A i \in 1..(k - 1) :
                        /\ CompletedFor(records[i], wf_call.steps[i])
                        /\ decisions[i] = to_dict(records[i].result)
                  /\ Len(decisions) = k - 1
                  /\ records[k] = [step_id |-> step.step_id, name |-> step.name,
                                   agent |-> step.agent_name, status |-> "failed",
                                   error |-> wf_call'.error]
                  /\ wf_call'.error =
                        IF step.agent_name \in DOMAIN registered_agents
                        THEN "'vip' is not a valid LifecycleStage"
                        ELSE "Agent " \o step.agent_name \o " not registered"
                  /\ wf_call'.k = k
                  /\ UNCHANGED <<decision_log, next_id>>
        /\ CallRaisesAtLookup =>
              /\ wf_call'.workflow_id \notin DOMAIN workflows
              /\ wf_call'.outcome = "raised"
              /\ wf_call'.error = "Workflow " \o wf_call'.workflow_id \o " not found"
              /\ UNCHANGED <<workflows, decision_log, next_id>>
        /\ (wf_call.pc = "idle" /\ wf_calls' = wf_calls) =>
              \A w \in DOMAIN workflows :
                  workflows'[w] = workflows[w] \/ workflows'[w].steps = <<>>
      ]_vars

\* the second step of the engine's second call has raised in decide
C29_Witness ==
    /\ wf_call.pc = "idle"
    /\ wf_call.outcome = "raised"
    /\ wf_calls = 2
    /\ "k" \in DOMAIN wf_call
    /\ Len(wf_call.steps) = 2
    /\ wf_call.k = 2
    /\ wf_call.error = "'vip' is not a valid LifecycleStage"
    /\ workflows[wf_call.workflow_id].status = "failed"
    /\ Len(workflows[wf_call.workflow_id].steps) = 2
    /\ DOMAIN workflows = {wf_call.workflow_id}

====
